---- MODULE Spec2Model ----
(***************************************************************************)
(* tenkai-server: the workflow layer that maps save / draft / review       *)
(* verbs onto a local go-git repository (Local Engine) and onto the        *)
(* hosting service's contents API (Remote Engine).                         *)
(*                                                                         *)
(* Part 1: Remote Engine, POST /api/git/souan-teishutsu (submit_files).    *)
(* Part 2: Local Engine, /api/init, /api/save, /api/history, /api/draft/*. *)
(***************************************************************************)
EXTENDS Integers, Sequences, FiniteSets, TLC

VARIABLES
    srv,        \* hosting service: path -> content stored on the branch (Absent = no file)
    req,        \* in-flight souan-teishutsu requests: one record per request slot
    snap,       \* history: srv as it was when request 1 was bound (srv while it is idle)
    touched,    \* history: paths the other request wrote since request 1 was bound
    disk,       \* file system: directory -> the repository and working tree in it
    repo,       \* var repo *git.Repository: the directory it was opened on, or Nil
    workDir,    \* var workDir string
    genClient,  \* var genClient *genai.Client: TRUE when it is not nil
    now,        \* the wall clock, in seconds
    loc,        \* the Local Engine request being handled (a save waiting for its message)
    lresp,      \* the last Local Engine response, with the request it answers
    host,       \* hosting service: the settings repository and its file, branches, review requests
    hreq        \* in-flight settings and /api/git requests other than souan-teishutsu

remoteVars == <<srv, req, snap, touched>>
localVars == <<disk, repo, workDir, genClient, now, loc, lresp>>
hostVars == <<host, hreq>>

vars == <<srv, req, snap, touched, disk, repo, workDir, genClient, now, loc, lresp, host, hreq>>

----------------------------------------------------------------------------
(* Bounds and input sets of the Remote Engine model *)

MaxFiles == 2                   \* longest file list of request 1
MaxFilesRival == 1              \* longest file list of request 2, its concurrent rival
Reqs == {1, 2}                  \* concurrent requests, each handled once
Paths == {"a", "b"}
Contents == {1, 2}
Absent == 0                     \* no file at the path
NoSHA == 0                      \* existingSHA == "" in the source

\* A submitted file list: entries {path, content}; a request names a path once.
FileEntries == [path : Paths, content : Contents]
FileListsUpTo(n) ==
    { s \in UNION { [1..k -> FileEntries] : k \in 0..n } :
        \A i, j \in DOMAIN s : i # j => s[i].path # s[j].path }
FileLists(r) == IF r = 1 THEN FileListsUpTo(MaxFiles) ELSE FileListsUpTo(MaxFilesRival)

\* The json "branch" values a request may carry.
BranchInputs == {"", "main"}

----------------------------------------------------------------------------
(* The hosting service's contents API (external collaborator) *)

\* The hash of a file entry is derived from its content (a blob hash): it
\* changes whenever the content changes, and equal contents have equal hashes.
BlobSHA(content) == 100 + content

\* base64.StdEncoding.EncodeToString / the service's decoding of "content".
B64Encode(content) == <<"b64", content>>
B64Decode(enc) == enc[2]

\* GET /repos/{repo}/contents/{path}?ref={branch}
ContentsGet(cur) ==
    IF cur = Absent THEN [status |-> 404, sha |-> NoSHA]
    ELSE [status |-> 200, sha |-> BlobSHA(cur)]

\* PUT /repos/{repo}/contents/{path}: applied only against the stored hash.
ContentsPut(cur, sha, enc) ==
    IF cur = Absent
    THEN IF sha = NoSHA
         THEN [status |-> 201, body |-> "created", content |-> B64Decode(enc)]
         ELSE [status |-> 409, body |-> "Conflict", content |-> cur]
    ELSE IF sha = NoSHA
         THEN [status |-> 422, body |-> "ShaNotSupplied", content |-> cur]
         ELSE IF sha # BlobSHA(cur)
              THEN [status |-> 409, body |-> "Conflict", content |-> cur]
              ELSE [status |-> 200, body |-> "updated", content |-> B64Decode(enc)]

----------------------------------------------------------------------------
(* Response{Success, Message, Data, Error} with the HTTP status of c.JSON *)

NoResp == [code |-> 0, success |-> FALSE, message |-> "", error |-> "", data |-> <<>>]

Respond(code, success, message, error, data) ==
    [code |-> code, success |-> success, message |-> message, error |-> error, data |-> data]

\* A request before it is bound. log is history: the backend calls the request
\* has issued, each with the hash it carried (GET: the hash it returned), the
\* hash the service stored for the path when the call arrived, and the answer's
\* status (0: no answer, the call failed in the network).
IdleReq ==
    [pc |-> "idle", files |-> <<>>, branch |-> "", i |-> 0, existingSHA |-> NoSHA,
     resp |-> NoResp, log |-> <<>>]

StoredSHA(cur) == IF cur = Absent THEN NoSHA ELSE BlobSHA(cur)

Call(op, idx, sha, cur, status) ==
    [op |-> op, idx |-> idx, sha |-> sha, stored |-> StoredSHA(cur), status |-> status]

----------------------------------------------------------------------------
(* handleSouanTeishutsu *)

\* branch := req.Branch; if branch == "" { branch = "main" }
DefaultBranchKeepsEmpty(b) == b
DefaultBranch(b) == IF b = "" THEN "main" ELSE b

\* getResp succeeded with 200 and decoded: existingSHA = existingFile.SHA, else "".
ReadExistingSHA(neterr, getResp) ==
    IF ~neterr /\ getResp.status = 200 THEN getResp.sha ELSE NoSHA

\* putResp.StatusCode != http.StatusOK && putResp.StatusCode != http.StatusCreated
PutRejectedBug(status) == status >= 500
PutRejected(status) == status # 200 /\ status # 201

\* The response after the loop: repository, branch and message of the request.
SubmitOK(branch) ==
    Respond(200, TRUE, "souan wo teishutsu shimashita", "", <<"repository", branch, "message">>)

\* The response of both failure branches of the PUT.
SubmitFailed(detail) ==
    Respond(500, FALSE, "file no commit ni shippai shimashita", detail, <<>>)

\* What the loop does with the answer to the PUT of file q.i: return the
\* failure, or go on to the next file, or leave the loop and answer.
PutOutcomeNoReturn(q, failed, detail, entry) ==
    IF q.i = Len(q.files)
    THEN [q EXCEPT !.pc = "done", !.log = Append(@, entry),
                   !.resp = IF failed THEN SubmitFailed(detail) ELSE SubmitOK(q.branch)]
    ELSE [q EXCEPT !.pc = "get", !.i = @ + 1, !.existingSHA = NoSHA,
                   !.log = Append(@, entry)]
PutOutcome(q, failed, detail, entry) ==
    IF failed
    THEN [q EXCEPT !.pc = "done", !.resp = SubmitFailed(detail), !.log = Append(@, entry)]
    ELSE IF q.i = Len(q.files)
    THEN [q EXCEPT !.pc = "done", !.resp = SubmitOK(q.branch), !.log = Append(@, entry)]
    ELSE [q EXCEPT !.pc = "get", !.i = @ + 1, !.existingSHA = NoSHA,
                   !.log = Append(@, entry)]

\* ShouldBindJSON, the branch default, and the loop's entry.
SouanTeishutsuBind(r, bindOk, files, branch) ==
    /\ req[r].pc = "idle"
    /\ IF ~bindOk
       THEN req' = [req EXCEPT ![r] =
                [IdleReq EXCEPT !.pc = "done",
                    !.resp = Respond(400, FALSE, "request ga fusei desu", "binding", <<>>)]]
       ELSE IF files = <<>>
       THEN req' = [req EXCEPT ![r] =
                [IdleReq EXCEPT !.pc = "done", !.branch = DefaultBranch(branch),
                    !.resp = SubmitOK(DefaultBranch(branch))]]
       ELSE req' = [req EXCEPT ![r] =
                [IdleReq EXCEPT !.pc = "get", !.files = files,
                    !.branch = DefaultBranch(branch), !.i = 1]]
    /\ UNCHANGED <<srv, snap, touched>>
    /\ UNCHANGED <<localVars, hostVars>>

\* The GET of file i: a network error, a non-200 answer or an undecodable
\* body all leave existingSHA empty.
SouanTeishutsuGet(r, neterr) ==
    /\ req[r].pc = "get"
    /\ LET file == req[r].files[req[r].i]
           getResp == ContentsGet(srv[file.path])
           sha == ReadExistingSHA(neterr, getResp)
       IN req' = [req EXCEPT ![r].pc = "put",
                             ![r].existingSHA = sha,
                             ![r].log = Append(@, Call("GET", req[r].i, sha, srv[file.path],
                                                       IF neterr THEN 0 ELSE getResp.status))]
    /\ UNCHANGED <<srv, snap, touched>>
    /\ UNCHANGED <<localVars, hostVars>>

\* The PUT of file i. fault: "none", "neterr" (client.Do returns an error; the
\* call is not applied) or "upstream" (the service answers 5xx without applying).
SouanTeishutsuPut(r, fault) ==
    /\ req[r].pc = "put"
    /\ LET file == req[r].files[req[r].i]
           putResp == IF fault = "upstream"
                      THEN [status |-> 503, body |-> "Unavailable", content |-> srv[file.path]]
                      ELSE ContentsPut(srv[file.path], req[r].existingSHA,
                                       B64Encode(file.content))
           entry == Call("PUT", req[r].i, req[r].existingSHA, srv[file.path],
                         IF fault = "neterr" THEN 0 ELSE putResp.status)
       IN IF fault = "neterr"
          THEN /\ req' = [req EXCEPT ![r] = PutOutcome(req[r], TRUE, "NetworkError", entry)]
               /\ UNCHANGED <<srv, snap, touched>>
          ELSE /\ srv' = [srv EXCEPT ![file.path] = putResp.content]
               /\ snap' = IF req[1].pc = "idle" THEN srv' ELSE snap
               /\ touched' = IF r # 1 /\ req[1].pc # "idle" /\ putResp.status \in {200, 201}
                               THEN touched \cup {file.path} ELSE touched
               /\ req' = [req EXCEPT ![r] =
                            PutOutcome(req[r], PutRejected(putResp.status), putResp.body, entry)]
    /\ UNCHANGED <<localVars, hostVars>>

----------------------------------------------------------------------------
(* Local Engine: bounds, input sets and the repository on disk *)

MaxCommits == 3                 \* revisions per repository in SpecLocal; draft changes in SpecHistory
MaxCommitsSave == 2             \* revisions per repository in SpecSave
MaxCommitsHistory == 22         \* revisions per repository in SpecHistory
MaxTime == 1                    \* last second of the clock

Nil == "nil"                    \* repo == nil
Dirs == {"d1", "d2"}            \* directories a request may name as workDir
DraftNames == {"master", "chapter2", "chapter3"}
WFiles == {"f1", "f2"}          \* paths of the working tree
UserMessages == {<<>>, <<"m1">>}                \* SaveRequest.Message; <<>> is ""
\* What model.GenerateContent returns: an error, or candidates; a candidate is
\* the list of its parts (<<>>: Content is nil or has no part), a part is a text.
AIParts == {<<" ">>, <<" ", "ai1", " ">>}
AIOutcomes ==
    {[err |-> TRUE, candidates |-> <<>>], [err |-> FALSE, candidates |-> <<>>],
     [err |-> FALSE, candidates |-> << <<>> >>],
     [err |-> FALSE, candidates |-> << <<>>, <<<<"ai1">>>> >>]}
    \cup {[err |-> FALSE, candidates |-> << <<p>> >>] : p \in AIParts}
NoOutcome == [err |-> FALSE, candidates |-> <<>>]

\* go-git StatusCode of a path in the index (Staging) and the working tree.
Unmodified == " "
Untracked == "?"
Modified == "M"
Added == "A"
Clean == [Staging |-> Unmodified, Worktree |-> Unmodified]

\* time.Time.Format("2006/01/02 15:04:05"): one string per second.
FormatTime(t) == <<"2025/01/01 00:00:00", "2025/01/01 00:00:01", "2025/01/01 00:00:02",
                   "2025/01/01 00:00:03">>[t + 1]

\* plumbing.Hash.String(): 40 hexadecimal digits, here derived from the
\* revision's number so that different revisions differ in the leading digits.
HashLen == 40
HashString(id) ==
    [k \in 1..HashLen |->
        IF k = 1 THEN id \div 16 ELSE IF k = 2 THEN id % 16 ELSE (id + k * k) % 16]

\* A directory without a repository; a repository is the record with exists.
\* commits[id] is revision id; refs maps a branch name to its revision (0: no
\* such ref); head is the branch HEAD names.
NoRepo ==
    [exists |-> FALSE, commits |-> <<>>, refs |-> [n \in DraftNames |-> 0],
     head |-> "master", status |-> [f \in WFiles |-> Clean]]

NumCommits(d) == Len(disk[d].commits)

----------------------------------------------------------------------------
(* go-git, as the handlers use it *)

\* git.PlainOpen: fails when the directory holds no repository.
PlainOpenFailsAlways(rs) == TRUE
PlainOpenFails(rs) == ~rs.exists

\* git.PlainInit(path, false): an empty repository, HEAD naming master, the
\* files of the directory as they are.
PlainInit(rs) == [NoRepo EXCEPT !.exists = TRUE, !.status = rs.status]

\* repo.Head(): the ref HEAD names; an error while that branch has no revision.
HeadFailsNever(rs) == FALSE
HeadFails(rs) == rs.refs[rs.head] = 0
HeadHash(rs) == rs.refs[rs.head]

\* w.Add("."): every change of the working tree goes to the index.
AddPathTrackedOnly(st) ==
    IF st.Worktree = Modified
    THEN [Staging |-> IF st.Staging = Added THEN Added ELSE Modified, Worktree |-> Unmodified]
    ELSE st
AddPath(st) ==
    IF st.Worktree = Untracked THEN [Staging |-> Added, Worktree |-> Unmodified]
    ELSE IF st.Worktree = Modified
         THEN [Staging |-> IF st.Staging = Added THEN Added ELSE Modified,
               Worktree |-> Unmodified]
         ELSE st
AddAll(rs) == [rs EXCEPT !.status = [f \in WFiles |-> AddPath(rs.status[f])]]

\* The index differs from the tip's tree.
HasStaged(rs) == \E f \in WFiles : rs.status[f].Staging \in {Added, Modified}

\* w.Commit: a new revision of the index on top of HEAD's tip (no parent on
\* an unborn branch); the branch HEAD names moves to it; the index is now the
\* tip's tree.
CommitMovingAllRefs(rs, message, when) ==
    LET id == Len(rs.commits) + 1
        c == [parent |-> rs.refs[rs.head], message |-> message,
              author |-> "tenkai", when |-> when]
    IN [rs EXCEPT !.commits = Append(@, c),
                  !.refs = [n \in DraftNames |-> IF n = rs.head \/ rs.refs[n] # 0 THEN id ELSE 0],
                  !.status = [f \in WFiles |->
                                [Staging |-> Unmodified, Worktree |-> rs.status[f].Worktree]]]
CommitAmending(rs, message, when) ==
    LET id == IF rs.commits = <<>> THEN 1 ELSE Len(rs.commits)
        c == [parent |-> rs.refs[rs.head], message |-> message,
              author |-> "tenkai", when |-> when]
    IN [rs EXCEPT !.commits = IF @ = <<>> THEN <<c>> ELSE [@ EXCEPT ![id] = c],
                  !.refs[rs.head] = id,
                  !.status = [f \in WFiles |->
                                [Staging |-> Unmodified, Worktree |-> rs.status[f].Worktree]]]
Commit(rs, message, when) ==
    LET id == Len(rs.commits) + 1
        c == [parent |-> rs.refs[rs.head], message |-> message,
              author |-> "tenkai", when |-> when]
    IN [rs EXCEPT !.commits = Append(@, c),
                  !.refs[rs.head] = id,
                  !.status = [f \in WFiles |->
                                [Staging |-> Unmodified, Worktree |-> rs.status[f].Worktree]]]

\* Worktree.containsUnstagedChanges: a tracked path modified in the working
\* tree (untracked paths do not count).
ContainsUnstagedChanges(rs) == \E f \in WFiles : rs.status[f].Worktree = Modified

\* w.Checkout(&git.CheckoutOptions{Create, Branch}): createBranch (fails when
\* the ref exists or HEAD has no revision), the lookup of the branch, HEAD set
\* to the branch, then the merge reset, which refuses unstaged changes after
\* the ref and HEAD were already written. Result: the error and the repository.
CheckoutResult(err, rs) == [err |-> err, rs |-> rs]
Checkout(rs, name, create) ==
    IF create /\ rs.refs[name] # 0
    THEN CheckoutResult("a branch named already exists", rs)
    ELSE IF create /\ HeadFails(rs)
    THEN CheckoutResult("reference not found", rs)
    ELSE IF ~create /\ rs.refs[name] = 0
    THEN CheckoutResult("reference not found", rs)
    ELSE LET created == IF create THEN [rs EXCEPT !.refs[name] = HeadHash(rs)] ELSE rs
             moved == [created EXCEPT !.head = name]
         IN IF ContainsUnstagedChanges(rs)
            THEN CheckoutResult("worktree contains unstaged changes", moved)
            ELSE CheckoutResult("", [moved EXCEPT !.status =
                    [f \in WFiles |-> IF rs.status[f].Worktree = Untracked
                                      THEN rs.status[f] ELSE Clean]])

\* repo.Log(&git.LogOptions{From: h}): the revisions from h along the parent
\* links, newest first.
RECURSIVE Log(_, _)
Log(rs, h) == IF h = 0 THEN <<>> ELSE <<h>> \o Log(rs, rs.commits[h].parent)

\* repo.Branches(): the refs under refs/heads.
Branches(rs) == { n \in DraftNames : rs.refs[n] # 0 }

\* git.Status.IsClean
IsClean(status) ==
    \A f \in WFiles : status[f].Worktree = Unmodified /\ status[f].Staging = Unmodified

----------------------------------------------------------------------------
(* Local Engine: requests and responses *)

\* Response of a Local Engine handler with the request it answers: op and arg
\* name the request; commit/cmsg are the data of save, history of history,
\* drafts of draft/list, current/modified/hasChanges of status.
NoLResp ==
    [op |-> "", arg |-> "", code |-> 0, success |-> FALSE, message |-> "", error |-> "",
     commit |-> <<>>, cmsg |-> <<>>, history |-> <<>>, drafts |-> {},
     current |-> "", modified |-> 0, hasChanges |-> FALSE]

LRespond(op, arg, code, success, message, error) ==
    [NoLResp EXCEPT !.op = op, !.arg = arg, !.code = code, !.success = success,
                    !.message = message, !.error = error]

BadRequest(op) == LRespond(op, "", 400, FALSE, "request ga fusei desu", "binding")
NotInitializedGoesOn(op, arg) == LRespond(op, arg, 200, TRUE, "", "")
NotInitialized(op, arg) == LRespond(op, arg, 400, FALSE, "saki ni shokika shite kudasai", "")

\* The locals of the save that last called the collaborator: req.Message,
\* commitMessage and what the call returned; pc is "idle" once it has answered.
IdleLoc == [pc |-> "idle", reqMessage |-> <<>>, commitMessage |-> <<>>, out |-> NoOutcome]

\* The state of the Local Engine before any request.
LocalIdle ==
    /\ disk = [d \in Dirs |-> NoRepo]
    /\ repo = Nil
    /\ workDir = ""
    /\ now = 0
    /\ loc = IdleLoc
    /\ lresp = NoLResp

----------------------------------------------------------------------------
(* handleInit *)

HandleInit(bindOk, d, initFails) ==
    /\ loc.pc = "idle"
    /\ IF ~bindOk
       THEN /\ lresp' = BadRequest("init")
            /\ UNCHANGED <<disk, repo, workDir>>
       ELSE /\ workDir' = d
            /\ IF ~PlainOpenFails(disk[d])
               THEN /\ repo' = d
                    /\ lresp' = LRespond("init", d, 200, TRUE, "genkou kanri wo kaishi", "")
                    /\ UNCHANGED disk
               ELSE IF initFails
               THEN /\ repo' = Nil
                    /\ lresp' = LRespond("init", d, 500, FALSE,
                                         "repository no shokika ni shippai", "init failed")
                    /\ UNCHANGED disk
               ELSE /\ repo' = d
                    /\ disk' = [disk EXCEPT ![d] = PlainInit(disk[d])]
                    /\ lresp' = LRespond("init", d, 200, TRUE, "genkou kanri wo kaishi", "")
    /\ UNCHANGED <<genClient, now, loc>>
    /\ UNCHANGED <<remoteVars, hostVars>>

----------------------------------------------------------------------------
(* handleSave, formatChanges, generateAICommitMessage *)

\* fmt.Sprintf("%s - jidou hozon", time.Now().Format(...)): the default message.
DefaultMessage(t) == <<FormatTime(t), " - jidou hozon">>

\* commitMessage := req.Message; if commitMessage == "" { the default }
InitialMessageKeepsEmpty(message, t) == message
InitialMessage(message, t) == IF message = <<>> THEN DefaultMessage(t) ELSE message

\* formatChanges: one "file: code" line per path whose staging or worktree
\* state is not unmodified (the staging code first); "" when there is none.
FormatChanges(status) ==
    { <<f, IF status[f].Staging # Unmodified THEN status[f].Staging ELSE status[f].Worktree>> :
        f \in { g \in WFiles : status[g].Staging # Unmodified \/ status[g].Worktree # Unmodified } }

\* if req.UseAI && genClient != nil { ... if changes != "" { generateAICommitMessage } }
AsksAIWithoutChanges(useAI, client, changes) == useAI /\ client
AsksAI(useAI, client, changes) == useAI /\ client /\ changes # {}

\* strings.TrimSpace on a text given as tokens, " " being white space.
RECURSIVE TrimLeft(_)
TrimLeft(t) == IF t # <<>> /\ Head(t) = " " THEN TrimLeft(Tail(t)) ELSE t
RECURSIVE TrimRight(_)
TrimRight(t) ==
    IF t # <<>> /\ t[Len(t)] = " " THEN TrimRight(SubSeq(t, 1, Len(t) - 1)) ELSE t
TrimSpace(t) == TrimRight(TrimLeft(t))

\* The first part of the first candidate that has content, trimmed; "" when
\* the call failed or no candidate has a part. A candidate is its list of parts.
RECURSIVE FirstPart(_)
FirstPart(candidates) ==
    IF candidates = <<>> THEN <<>>
    ELSE IF Head(candidates) # <<>> THEN TrimSpace(Head(candidates)[1])
    ELSE FirstPart(Tail(candidates))
GenerateAICommitMessage(out) == IF out.err THEN <<>> ELSE FirstPart(out.candidates)

\* if aiMessage != "" { commitMessage = aiMessage }
FinalMessageAlwaysAI(commitMessage, aiMessage) == aiMessage
FinalMessage(commitMessage, aiMessage) ==
    IF aiMessage # <<>> THEN aiMessage ELSE commitMessage

\* commit.String()[:7]
ShortLen == 7
ShortID(id) == SubSeq(HashString(id), 1, ShortLen)

\* w.Commit and the response. emptyOK: whether this go-git commits an index
\* equal to the tip's tree (older releases do; newer ones return ErrEmptyCommit).
SaveCommit(rs, commitMessage, emptyOK) ==
    IF ~HasStaged(rs) /\ ~emptyOK
    THEN /\ disk' = [disk EXCEPT ![repo] = rs]
         /\ lresp' = LRespond("save", "", 500, FALSE, "hozon ni shippai shimashita",
                              "clean working tree")
    ELSE /\ disk' = [disk EXCEPT ![repo] = Commit(rs, commitMessage, now)]
         /\ lresp' = [LRespond("save", "", 200, TRUE, "hozon shimashita", "")
                        EXCEPT !.commit = ShortID(Len(rs.commits) + 1),
                               !.cmsg = commitMessage]

\* The handler up to the commit, or up to the call of the collaborator.
HandleSave(bindOk, message, useAI, emptyOK) ==
    /\ loc.pc = "idle"
    /\ IF ~bindOk
       THEN lresp' = BadRequest("save") /\ UNCHANGED <<disk, loc>>
       ELSE IF repo = Nil
       THEN lresp' = NotInitialized("save", "") /\ UNCHANGED <<disk, loc>>
       ELSE LET staged == AddAll(disk[repo])
                commitMessage == InitialMessage(message, now)
            IN IF AsksAI(useAI, genClient, FormatChanges(staged.status))
               THEN /\ disk' = [disk EXCEPT ![repo] = staged]
                    /\ loc' = [IdleLoc EXCEPT !.pc = "waitAI", !.reqMessage = message,
                                              !.commitMessage = commitMessage]
                    /\ lresp' = NoLResp
               ELSE /\ SaveCommit(staged, commitMessage, emptyOK)
                    /\ UNCHANGED loc
    /\ UNCHANGED <<repo, workDir, genClient, now>>
    /\ UNCHANGED <<remoteVars, hostVars>>

\* model.GenerateContent(ctx, ...) with ctx := context.Background(): the call
\* returns when the collaborator answers (an error, or candidates).
GenerateContentReturns(out) ==
    /\ loc.pc = "waitAI"
    /\ loc' = [loc EXCEPT !.pc = "gotAI", !.out = out]
    /\ UNCHANGED <<disk, repo, workDir, genClient, now, lresp>>
    /\ UNCHANGED <<remoteVars, hostVars>>

\* The handler after the call returned: it picks the message, commits and answers.
SaveAfterAI(emptyOK) ==
    /\ loc.pc = "gotAI"
    /\ SaveCommit(disk[repo],
                  FinalMessage(loc.commitMessage, GenerateAICommitMessage(loc.out)), emptyOK)
    /\ loc' = [loc EXCEPT !.pc = "idle"]
    /\ UNCHANGED <<repo, workDir, genClient, now>>
    /\ UNCHANGED <<remoteVars, hostVars>>

----------------------------------------------------------------------------
(* handleHistory *)

HistoryLimit == 20

\* if count >= limit { return nil }
ReachedLimitOffByOne(count) == count > HistoryLimit
ReachedLimit(count) == count >= HistoryLimit

\* The map appended for a revision.
HistoryEntry(rs, id) ==
    [id |-> ShortID(id), date |-> FormatTime(rs.commits[id].when),
     message |-> rs.commits[id].message, author |-> rs.commits[id].author]

\* cIter.ForEach: every revision of the log is visited; it is appended while
\* count is below the limit.
RECURSIVE ForEachCommit(_, _, _)
ForEachCommit(rs, ids, history) ==
    IF ids = <<>> THEN history
    ELSE ForEachCommit(rs, Tail(ids),
            IF ReachedLimit(Len(history)) THEN history
            ELSE Append(history, HistoryEntry(rs, Head(ids))))

HandleHistory ==
    /\ loc.pc = "idle"
    /\ IF repo = Nil
       THEN lresp' = NotInitialized("history", "")
       ELSE IF HeadFails(disk[repo])
       THEN lresp' = LRespond("history", "", 500, FALSE, "rireki no shutoku ni shippai",
                              "reference not found")
       ELSE lresp' = [LRespond("history", "", 200, TRUE, "", "")
                        EXCEPT !.history =
                            ForEachCommit(disk[repo], Log(disk[repo], HeadHash(disk[repo])), <<>>)]
    /\ UNCHANGED <<disk, repo, workDir, genClient, now, loc>>
    /\ UNCHANGED <<remoteVars, hostVars>>

----------------------------------------------------------------------------
(* handleDraftCreate, handleDraftList, handleDraftSwitch, handleStatus *)

\* &git.CheckoutOptions{Create: true, Branch: branchName}
CreateOptionsNoCreate(name) == [Branch |-> name, Create |-> FALSE]
CreateOptions(name) == [Branch |-> name, Create |-> TRUE]

\* if err != nil { 500 with err.Error() } else { 200 }
DraftCreateResponseIgnoresError(name, err) ==
    LRespond("draft/create", name, 200, TRUE, "souan wo sakusei shimashita", "")
DraftCreateResponse(name, err) ==
    IF err # ""
    THEN LRespond("draft/create", name, 500, FALSE, "souan no sakusei ni shippai", err)
    ELSE LRespond("draft/create", name, 200, TRUE, "souan wo sakusei shimashita", "")

HandleDraftCreate(bindOk, name) ==
    /\ loc.pc = "idle"
    /\ IF ~bindOk
       THEN lresp' = BadRequest("draft/create") /\ UNCHANGED disk
       ELSE IF repo = Nil
       THEN lresp' = NotInitialized("draft/create", name) /\ UNCHANGED disk
       ELSE LET opts == CreateOptions(name)
                res == Checkout(disk[repo], opts.Branch, opts.Create)
            IN /\ disk' = [disk EXCEPT ![repo] = res.rs]
               /\ lresp' = DraftCreateResponse(name, res.err)
    /\ UNCHANGED <<repo, workDir, genClient, now, loc>>
    /\ UNCHANGED <<remoteVars, hostVars>>

\* The entry appended for a ref: its short name and whether it is HEAD's.
DraftEntryAllCurrent(name, currentBranch) == [name |-> name, current |-> TRUE]
DraftEntry(name, currentBranch) == [name |-> name, current |-> name = currentBranch]

HandleDraftList ==
    /\ loc.pc = "idle"
    /\ IF repo = Nil
       THEN lresp' = NotInitialized("draft/list", "")
       ELSE IF HeadFails(disk[repo])
       THEN lresp' = LRespond("draft/list", "", 500, FALSE,
                              "genzai no souan no shutoku ni shippai", "reference not found")
       ELSE lresp' = [LRespond("draft/list", "", 200, TRUE, "", "")
                        EXCEPT !.drafts = { DraftEntry(n, disk[repo].head) :
                                                n \in Branches(disk[repo]) }]
    /\ UNCHANGED <<disk, repo, workDir, genClient, now, loc>>
    /\ UNCHANGED <<remoteVars, hostVars>>

HandleDraftSwitch(bindOk, name) ==
    /\ loc.pc = "idle"
    /\ IF ~bindOk
       THEN lresp' = BadRequest("draft/switch") /\ UNCHANGED disk
       ELSE IF repo = Nil
       THEN lresp' = NotInitialized("draft/switch", name) /\ UNCHANGED disk
       ELSE LET res == Checkout(disk[repo], name, FALSE)
            IN /\ disk' = [disk EXCEPT ![repo] = res.rs]
               /\ lresp' = IF res.err # ""
                           THEN LRespond("draft/switch", name, 500, FALSE,
                                         "souan no kirikae ni shippai", res.err)
                           ELSE LRespond("draft/switch", name, 200, TRUE,
                                         "souan ni kirikaemashita", "")
    /\ UNCHANGED <<repo, workDir, genClient, now, loc>>
    /\ UNCHANGED <<remoteVars, hostVars>>

\* modifiedCount: the paths whose staging or worktree state is not unmodified.
ModifiedCountTrackedOnly(status) ==
    Cardinality({ f \in WFiles : status[f].Worktree = Modified })

ModifiedCount(status) ==
    Cardinality({ f \in WFiles :
        status[f].Staging # Unmodified \/ status[f].Worktree # Unmodified })

HandleStatus ==
    /\ loc.pc = "idle"
    /\ IF repo = Nil
       THEN lresp' = NotInitialized("status", "")
       ELSE IF HeadFails(disk[repo])
       THEN lresp' = LRespond("status", "", 500, FALSE,
                              "genzai no souan no shutoku ni shippai", "reference not found")
       ELSE lresp' = [LRespond("status", "", 200, TRUE, "", "")
                        EXCEPT !.current = disk[repo].head,
                               !.modified = ModifiedCount(disk[repo].status),
                               !.hasChanges = ~IsClean(disk[repo].status)]
    /\ UNCHANGED <<disk, repo, workDir, genClient, now, loc>>
    /\ UNCHANGED <<remoteVars, hostVars>>

----------------------------------------------------------------------------
(* The environment of the Local Engine: the author's editor and the clock *)

\* The author writes a path of the working tree: a new file, or (once the
\* branch has a revision) a change to a tracked one.
EditPath(st, born, new) ==
    IF st = Clean
    THEN IF new THEN [Staging |-> Untracked, Worktree |-> Untracked]
         ELSE IF born THEN [Staging |-> Unmodified, Worktree |-> Modified] ELSE st
    ELSE IF st.Staging \in {Added, Modified} THEN [st EXCEPT !.Worktree = Modified]
    ELSE st

Edit(d, f, new) ==
    /\ disk[d].exists
    /\ disk' = [disk EXCEPT ![d].status[f] = EditPath(@, ~HeadFails(disk[d]), new)]
    /\ disk' # disk
    /\ lresp' = NoLResp
    /\ UNCHANGED <<repo, workDir, genClient, now, loc>>
    /\ UNCHANGED <<remoteVars, hostVars>>

Tick ==
    /\ now < MaxTime
    /\ now' = now + 1
    /\ lresp' = NoLResp
    /\ UNCHANGED <<disk, repo, workDir, genClient, loc>>
    /\ UNCHANGED <<remoteVars, hostVars>>

----------------------------------------------------------------------------
(* Hosting service state and the requests of the settings and /api/git handlers *)

MaxTip == 2                     \* highest revision number a remote branch reaches

Faults == {"none", "neterr", "upstream"}    \* of one backend call

\* TenkaiSettings; the zero value of the struct.
ZeroSettings ==
    [version |-> "", chars_per_line |-> 0, lines_per_page |-> 0, writing_mode |-> "",
     theme |-> "", repositories |-> <<>>, active_repo |-> "", custom_settings |-> <<>>,
     last_updated |-> ""]

\* The struct's fields in declaration order, by json tag.
SettingsKeys ==
    <<"version", "chars_per_line", "lines_per_page", "writing_mode", "theme",
      "repositories", "active_repo", "custom_settings", "last_updated">>

\* Documents a save request may carry.
SettingsInputs ==
    {[ZeroSettings EXCEPT !.version = "1.0", !.chars_per_line = 20, !.lines_per_page = 20,
                          !.writing_mode = "horizontal", !.theme = "dark",
                          !.repositories = <<"me/novel">>, !.active_repo = "me/novel"],
     [ZeroSettings EXCEPT !.theme = "light"]}

\* time.Now().Format(time.RFC3339)
FormatRFC3339(t) == <<"2025-01-01T00:00:00Z", "2025-01-01T00:00:01Z", "2025-01-01T00:00:02Z",
                      "2025-01-01T00:00:03Z">>[t + 1]

\* File contents: a JSON object as its list of <<key, value>> members, bytes
\* that are no JSON, or no file.
NoFile == [kind |-> "absent", members |-> <<>>]
NotJSON == [kind |-> "garbage", members |-> <<>>]

\* json.MarshalIndent(settings, "", "  "): every field, in declaration order.
MarshalWithoutStamp(settings) ==
    [kind |-> "object",
     members |-> [n \in 1..(Len(SettingsKeys) - 1) |->
                    <<SettingsKeys[n], settings[SettingsKeys[n]]>>]]
Marshal(settings) ==
    [kind |-> "object",
     members |-> [n \in DOMAIN SettingsKeys |-> <<SettingsKeys[n], settings[SettingsKeys[n]]>>]]

\* json.Unmarshal(content, &settings): the members found set their fields of
\* the zero value; bytes that are no JSON object are an error.
RECURSIVE SetMembers(_, _)
SetMembers(settings, members) ==
    IF members = <<>> THEN settings
    ELSE SetMembers([settings EXCEPT ![Head(members)[1]] = Head(members)[2]], Tail(members))
Unmarshal(bytes) ==
    IF bytes.kind = "object"
    THEN [err |-> "", settings |-> SetMembers(ZeroSettings, bytes.members)]
    ELSE [err |-> "invalid character", settings |-> ZeroSettings]

\* base64.StdEncoding.EncodeToString; the contents API returns the encoding
\* broken into lines; strings.ReplaceAll(file.Content, "\n", "") joins them;
\* base64.StdEncoding.DecodeString.
EncodeToString(bytes) == [b64 |-> bytes, lines |-> FALSE]
BrokenIntoLines(enc) == [enc EXCEPT !.lines = TRUE]
ReplaceAllNewlines(enc) == [enc EXCEPT !.lines = FALSE]
DecodeString(enc) == enc.b64

\* What was in the settings file before: nothing, documents written by this
\* or an older release of the program, or bytes written by hand.
PriorFiles ==
    {NoFile, NotJSON,
     Marshal([ZeroSettings EXCEPT !.version = "0.9", !.theme = "sepia",
                                  !.repositories = <<"me/old">>, !.active_repo = "me/old"]),
     [kind |-> "object", members |-> << <<"theme", "dark">> >>]}

\* The hash of a file: derived from its bytes; NoFileSHA is "".
FileSHA(bytes) == [of |-> bytes]
NoFileSHA == [of |-> NoFile]

\* Remote branches and their revisions (0: no such ref).
RemoteBranches == {"main", "souan1"}


\* Response of these handlers: settings is the Data of the settings handlers,
\* data the Data of the /api/git handlers.
NoHResp ==
    [code |-> 0, success |-> FALSE, message |-> "", error |-> "",
     settings |-> ZeroSettings, data |-> <<>>]
HRespond(code, success, message, error) ==
    [NoHResp EXCEPT !.code = code, !.success = success, !.message = message, !.error = error]

\* A request before it arrives: kind names the handler, the other fields are
\* the handler's locals. log is history: the backend calls issued, each with
\* the answer's status (0: network error), the file hash it carried or was
\* answered, and the revision it carried or was answered.
IdleHReq ==
    [kind |-> "", pc |-> "idle", settings |-> ZeroSettings,
     contentEncoded |-> EncodeToString(NoFile), existingSHA |-> NoFileSHA,
     name |-> "", baseBranch |-> "", object |-> FALSE, sha |-> 0, reviewers |-> <<>>, number |-> 0,
     path |-> "", handle |-> Nil, commitMessage |-> <<>>,
     resp |-> NoHResp, log |-> <<>>]

HCall(call, status, sha, rev) == [call |-> call, status |-> status, sha |-> sha, rev |-> rev]

Answer(q, resp) == [q EXCEPT !.pc = "done", !.resp = resp]

\* The hosting service: the identity's .tenkai-settings repository and its
\* settings.json, the refs of the manuscript repository, its review requests.
HostIdle ==
    /\ host = [settingsRepo |-> FALSE, settingsFile |-> NoFile,
               refs |-> [b \in RemoteBranches |-> 0], pulls |-> <<>>]
    /\ hreq = [r \in Reqs |-> IdleHReq]

----------------------------------------------------------------------------
(* The hosting service's API for the settings repository (external collaborator) *)

\* GET /repos/{user}/.tenkai-settings/contents/settings.json
SettingsFileGet(h) ==
    IF ~h.settingsRepo \/ h.settingsFile = NoFile
    THEN [status |-> 404, sha |-> NoFileSHA, content |-> EncodeToString(NoFile)]
    ELSE [status |-> 200, sha |-> FileSHA(h.settingsFile),
          content |-> BrokenIntoLines(EncodeToString(h.settingsFile))]

\* GET /repos/{user}/.tenkai-settings
SettingsRepoGet(h) == IF h.settingsRepo THEN 200 ELSE 404

\* POST /user/repos {name: ".tenkai-settings", auto_init: true}
SettingsRepoCreate(h) ==
    IF h.settingsRepo THEN [status |-> 422, host |-> h]
    ELSE [status |-> 201, host |-> [h EXCEPT !.settingsRepo = TRUE]]

\* PUT /repos/{user}/.tenkai-settings/contents/settings.json {content, sha?}
SettingsFilePut(h, sha, enc) ==
    IF ~h.settingsRepo THEN [status |-> 404, host |-> h]
    ELSE IF h.settingsFile = NoFile
    THEN IF sha = NoFileSHA
         THEN [status |-> 201, host |-> [h EXCEPT !.settingsFile = DecodeString(enc)]]
         ELSE [status |-> 409, host |-> h]
    ELSE IF sha = NoFileSHA THEN [status |-> 422, host |-> h]
    ELSE IF sha # FileSHA(h.settingsFile) THEN [status |-> 409, host |-> h]
    ELSE [status |-> 200, host |-> [h EXCEPT !.settingsFile = DecodeString(enc)]]

----------------------------------------------------------------------------
(* handleGetSettings, getTenkaiSettings *)

\* getTenkaiSettings: the error (or ""), the document, the answer's status.
GetTenkaiSettings(h, fault) ==
    IF fault = "neterr"
    THEN [err |-> "network error", settings |-> ZeroSettings, status |-> 0]
    ELSE LET resp == IF fault = "upstream"
                     THEN [status |-> 503, sha |-> NoFileSHA,
                           content |-> EncodeToString(NoFile)]
                     ELSE SettingsFileGet(h)
         IN IF resp.status = 404
            THEN [err |-> "settings not found", settings |-> ZeroSettings, status |-> 404]
            ELSE IF resp.status # 200
            THEN [err |-> "GitHub API error", settings |-> ZeroSettings, status |-> resp.status]
            ELSE LET u == Unmarshal(DecodeString(ReplaceAllNewlines(resp.content)))
                 IN [err |-> u.err, settings |-> u.settings, status |-> 200]

\* The default document of handleGetSettings.
DefaultSettings(t) ==
    [version |-> "1.0", chars_per_line |-> 17, lines_per_page |-> 42,
     writing_mode |-> "vertical", theme |-> "light", repositories |-> <<>>,
     active_repo |-> "", custom_settings |-> <<>>, last_updated |-> FormatRFC3339(t)]

\* settings, err := getTenkaiSettings(...); if err != nil { the default } else { settings }
GetSettingsResponseSurfacesError(res, t) ==
    IF res.err # ""
    THEN HRespond(500, FALSE, "settei no shutoku ni shippai", res.err)
    ELSE [HRespond(200, TRUE, "", "") EXCEPT !.settings = res.settings]
GetSettingsResponse(res, t) ==
    IF res.err # ""
    THEN [HRespond(200, TRUE, "default settei wo kaeshimashita", "")
            EXCEPT !.settings = DefaultSettings(t)]
    ELSE [HRespond(200, TRUE, "", "") EXCEPT !.settings = res.settings]

HandleGetSettings(r, header, userFault, fault) ==
    /\ hreq[r].pc = "idle"
    /\ LET q == [IdleHReq EXCEPT !.kind = "settings/get"]
       IN IF ~header
          THEN hreq' = [hreq EXCEPT ![r] =
                    Answer(q, HRespond(401, FALSE, "ninshou ga hitsuyou desu", ""))]
          ELSE IF userFault
          THEN hreq' = [hreq EXCEPT ![r] =
                    Answer([q EXCEPT !.log = <<HCall("GET user", 401, NoFileSHA, 0)>>],
                           HRespond(401, FALSE, "user jouhou no shutoku ni shippai",
                                    "GitHub API error"))]
          ELSE LET res == GetTenkaiSettings(host, fault)
               IN hreq' = [hreq EXCEPT ![r] =
                    Answer([q EXCEPT !.log = <<HCall("GET user", 200, NoFileSHA, 0),
                                               HCall("GET file", res.status, NoFileSHA, 0)>>],
                           GetSettingsResponse(res, now))]
    /\ UNCHANGED <<host, remoteVars, localVars>>

----------------------------------------------------------------------------
(* handleSaveSettings, saveTenkaiSettings, getFileSHA, ensureTenkaiSettingsRepo *)

\* req.Settings.LastUpdated = time.Now().Format(time.RFC3339)
StampLastUpdated(settings, t) == [settings EXCEPT !.last_updated = FormatRFC3339(t)]

\* saveTenkaiSettings returned an error.
SaveSettingsFailed(q, detail) ==
    Answer(q, HRespond(500, FALSE, "settei no hozon ni shippai shimashita", detail))

\* ShouldBindJSON, getGitHubUser, the stamp, and the encoding of the document.
SaveSettingsBind(r, bindOk, userFault, settings) ==
    /\ hreq[r].pc = "idle"
    /\ LET q == [IdleHReq EXCEPT !.kind = "settings/save"]
       IN IF ~bindOk
          THEN hreq' = [hreq EXCEPT ![r] =
                    Answer(q, HRespond(400, FALSE, "request ga fusei desu", "binding"))]
          ELSE IF userFault
          THEN hreq' = [hreq EXCEPT ![r] =
                    Answer([q EXCEPT !.log = <<HCall("GET user", 401, NoFileSHA, 0)>>],
                           HRespond(401, FALSE, "user jouhou no shutoku ni shippai",
                                    "GitHub API error"))]
          ELSE LET stamped == StampLastUpdated(settings, now)
               IN hreq' = [hreq EXCEPT ![r] =
                    [q EXCEPT !.pc = "read", !.settings = stamped,
                              !.contentEncoded = EncodeToString(Marshal(stamped)),
                              !.log = <<HCall("GET user", 200, NoFileSHA, 0)>>]]
    /\ UNCHANGED <<host, remoteVars, localVars>>

\* existingSettings, err := getTenkaiSettings(...): the hash is read only
\* when the document was read and decoded.
ReadsSHAAlways(res) == res.status = 200
ReadsSHA(res) == res.err = ""

SaveSettingsRead(r, fault) ==
    /\ hreq[r].pc = "read"
    /\ LET res == GetTenkaiSettings(host, fault)
       IN hreq' = [hreq EXCEPT ![r].pc = IF ReadsSHA(res) THEN "sha" ELSE "ensure",
                               ![r].log = Append(@, HCall("GET file", res.status,
                                    IF res.status = 200 THEN FileSHA(host.settingsFile)
                                    ELSE NoFileSHA, 0))]
    /\ UNCHANGED <<host, remoteVars, localVars>>

\* getFileSHA: file.SHA of a 200 answer, "" with an error otherwise.
GetFileSHA(h, fault) ==
    IF fault = "neterr" THEN [err |-> "network error", sha |-> NoFileSHA, status |-> 0]
    ELSE LET resp == IF fault = "upstream"
                     THEN [status |-> 503, sha |-> NoFileSHA,
                           content |-> EncodeToString(NoFile)]
                     ELSE SettingsFileGet(h)
         IN IF resp.status # 200
            THEN [err |-> "file not found", sha |-> NoFileSHA, status |-> resp.status]
            ELSE [err |-> "", sha |-> resp.sha, status |-> 200]

\* sha, _ := getFileSHA(...); existingSHA = sha
SaveSettingsSHA(r, fault) ==
    /\ hreq[r].pc = "sha"
    /\ LET res == GetFileSHA(host, fault)
       IN hreq' = [hreq EXCEPT ![r].pc = "ensure",
                               ![r].existingSHA = res.sha,
                               ![r].log = Append(@, HCall("GET sha", res.status, res.sha, 0))]
    /\ UNCHANGED <<host, remoteVars, localVars>>

\* ensureTenkaiSettingsRepo, the GET: 200 means the repository exists.
SaveSettingsEnsure(r, fault) ==
    /\ hreq[r].pc = "ensure"
    /\ LET status == IF fault = "neterr" THEN 0
                     ELSE IF fault = "upstream" THEN 503 ELSE SettingsRepoGet(host)
           q == [hreq[r] EXCEPT !.log = Append(@, HCall("GET repo", status, NoFileSHA, 0))]
       IN hreq' = [hreq EXCEPT ![r] =
                    IF fault = "neterr" THEN SaveSettingsFailed(q, "network error")
                    ELSE IF status = 200 THEN [q EXCEPT !.pc = "put"]
                    ELSE [q EXCEPT !.pc = "create"]]
    /\ UNCHANGED <<host, remoteVars, localVars>>

\* ensureTenkaiSettingsRepo, the POST: anything but 201 is an error.
SaveSettingsCreate(r, fault) ==
    /\ hreq[r].pc = "create"
    /\ LET res == IF fault = "none" THEN SettingsRepoCreate(host)
                  ELSE [status |-> IF fault = "neterr" THEN 0 ELSE 503, host |-> host]
           q == [hreq[r] EXCEPT !.log = Append(@, HCall("POST repo", res.status, NoFileSHA, 0))]
       IN /\ host' = res.host
          /\ hreq' = [hreq EXCEPT ![r] =
                    IF fault = "neterr" THEN SaveSettingsFailed(q, "network error")
                    ELSE IF res.status # 201
                    THEN SaveSettingsFailed(q, "failed to create repository")
                    ELSE [q EXCEPT !.pc = "put"]]
    /\ UNCHANGED <<remoteVars, localVars>>

\* The PUT of the document, carrying existingSHA when it is not "", and the
\* handler's answer.
SaveSettingsPut(r, fault) ==
    /\ hreq[r].pc = "put"
    /\ LET res == IF fault = "none"
                  THEN SettingsFilePut(host, hreq[r].existingSHA, hreq[r].contentEncoded)
                  ELSE [status |-> IF fault = "neterr" THEN 0 ELSE 503, host |-> host]
           q == [hreq[r] EXCEPT !.log = Append(@, HCall("PUT file", res.status,
                                                         hreq[r].existingSHA, 0))]
       IN /\ host' = res.host
          /\ hreq' = [hreq EXCEPT ![r] =
                    IF fault = "neterr" THEN SaveSettingsFailed(q, "network error")
                    ELSE IF res.status # 200 /\ res.status # 201
                    THEN SaveSettingsFailed(q, "GitHub API error")
                    ELSE Answer(q, [HRespond(200, TRUE, "settei wo hozon shimashita", "")
                                        EXCEPT !.settings = q.settings])]
    /\ UNCHANGED <<remoteVars, localVars>>

\* The clock of the settings and /api/git handlers.
HostTick ==
    /\ now < MaxTime
    /\ now' = now + 1
    /\ UNCHANGED <<disk, repo, workDir, genClient, loc, lresp>>
    /\ UNCHANGED <<remoteVars, hostVars>>

----------------------------------------------------------------------------
(* The hosting service's git API for the manuscript repository            *)
(* (external collaborator): refs and review requests                      *)

\* A ref of the manuscript repository maps a branch name to the revision at
\* its tip; 0: no such ref. Revisions are numbered as they are pushed.
NewestRevision(h) ==
    CHOOSE n \in 0..MaxTip : (\E b \in RemoteBranches : h.refs[b] = n)
                             /\ (\A b \in RemoteBranches : h.refs[b] <= n)

\* GET /repos/{repo}/git/refs/heads/{branch}
RefGet(h, branch) ==
    IF h.refs[branch] = 0 THEN [status |-> 404, object |-> FALSE, sha |-> 0]
    ELSE [status |-> 200, object |-> TRUE, sha |-> h.refs[branch]]

\* POST /repos/{repo}/git/refs: 422 when the ref exists, else the ref is
\* created at the given revision and the answer is 201.
RefCreate(h, name, sha) ==
    IF h.refs[name] # 0 THEN [status |-> 422, host |-> h]
    ELSE [status |-> 201, host |-> [h EXCEPT !.refs[name] = sha]]

\* html_url of review request number n.
PullURL(n) == <<"pull", n>>

\* The accounts that can be asked for a review of the manuscript repository.
Collaborators == {"editor"}

\* POST /repos/{repo}/pulls: 422 when head or base is no branch or head has an
\* open review request into base already, else the request is created (201).
PullsCreate(h, head, base) ==
    IF \/ h.refs[head] = 0
       \/ h.refs[base] = 0
       \/ \E n \in DOMAIN h.pulls : h.pulls[n].head = head /\ h.pulls[n].base = base
    THEN [status |-> 422, number |-> 0, host |-> h]
    ELSE [status |-> 201, number |-> Len(h.pulls) + 1,
          host |-> [h EXCEPT !.pulls = Append(@, [head |-> head, base |-> base,
                                                   reviewers |-> <<>>])]]

\* POST /repos/{repo}/pulls/{number}/requested_reviewers: 422 when a reviewer
\* is no collaborator, else the reviewers are attached (201).
ReviewersRequest(h, number, reviewers) ==
    IF \E n \in DOMAIN reviewers : reviewers[n] \notin Collaborators
    THEN [status |-> 422, host |-> h]
    ELSE [status |-> 201, host |-> [h EXCEPT !.pulls[number].reviewers = reviewers]]

\* Somebody pushes a revision to an existing branch of the manuscript
\* repository.
Push(branch) ==
    /\ host.refs[branch] # 0
    /\ NewestRevision(host) < MaxTip
    /\ host' = [host EXCEPT !.refs[branch] = NewestRevision(host) + 1]
    /\ UNCHANGED <<hreq, remoteVars, localVars>>

----------------------------------------------------------------------------
(* POST /api/git/souan-create: handleSouanCreate *)

Repository == "owner/novel"

\* baseBranch := req.BaseBranch; if baseBranch == "" { baseBranch = "main" }
BaseBranchOf(baseBranch) == IF baseBranch = "" THEN "main" ELSE baseBranch

SouanCreateBind(r, bindOk, name, baseBranch) ==
    /\ hreq[r].pc = "idle"
    /\ hreq' = [hreq EXCEPT ![r] =
        IF ~bindOk
        THEN Answer([@ EXCEPT !.kind = "souan-create"],
                    HRespond(400, FALSE, "request ga fusei desu", "binding"))
        ELSE [@ EXCEPT !.kind = "souan-create", !.pc = "base", !.name = name,
                       !.baseBranch = BaseBranchOf(baseBranch)]]
    /\ UNCHANGED <<host, remoteVars, localVars>>

\* GET of the base ref and decoding of its body; the status of the answer is
\* not looked at. An answer without "object" (404) is decoded all the same.
SouanCreateReadBase(r, fault) ==
    LET q == hreq[r]
        got == RefGet(host, q.baseBranch)
        status == CASE fault = "neterr" -> 0 [] fault = "upstream" -> 503 [] OTHER -> got.status
        logged == [q EXCEPT !.log = Append(@, HCall("GET ref", status, NoFileSHA,
                                                    IF status = 200 THEN got.sha ELSE 0))]
    IN /\ q.kind = "souan-create"
       /\ q.pc = "base"
       /\ hreq' = [hreq EXCEPT ![r] =
            CASE fault = "neterr" ->
                    Answer(logged, HRespond(500, FALSE, "base branch no shutoku ni shippai shimashita",
                                            "network error"))
              [] fault = "upstream" ->
                    Answer(logged, HRespond(500, FALSE, "base branch joho no parse ni shippai shimashita",
                                            "invalid character"))
              [] OTHER ->
                    [logged EXCEPT !.pc = "create", !.object = got.object, !.sha = got.sha]]
       /\ UNCHANGED <<host, remoteVars, localVars>>

\* "sha": baseRef["object"].(map[string]interface{})["sha"]
BaseSHACurrent(q, h) == h.refs[q.baseBranch]
BaseSHA(q, h) == q.sha

\* if postResp.StatusCode != http.StatusCreated
CreateRefFailedNever(status) == FALSE
CreateRefFailed(status) == status # 201

\* The type assertion on a body without "object" panics; gin's recovery
\* answers 500 with an empty body and no ref-creation call is issued.
\* Otherwise POST of the new ref and the response.
SouanCreateRef(r, fault) ==
    LET q == hreq[r]
        made == RefCreate(host, q.name, BaseSHA(q, host))
        status == CASE fault = "neterr" -> 0 [] fault = "upstream" -> 503 [] OTHER -> made.status
        logged == [q EXCEPT !.log = Append(@, HCall("POST ref", status, NoFileSHA, BaseSHA(q, host)))]
    IN /\ q.kind = "souan-create"
       /\ q.pc = "create"
       /\ IF ~q.object
          THEN /\ hreq' = [hreq EXCEPT ![r] = Answer(q, HRespond(500, FALSE, "", ""))]
               /\ host' = host
          ELSE /\ host' = IF fault = "none" THEN made.host ELSE host
               /\ hreq' = [hreq EXCEPT ![r] =
                    IF fault = "neterr"
                    THEN Answer(logged, HRespond(500, FALSE, "souan no sakusei ni shippai shimashita",
                                                 "network error"))
                    ELSE IF CreateRefFailed(status)
                    THEN Answer(logged, HRespond(500, FALSE, "souan no sakusei ni shippai shimashita",
                                                 "upstream body"))
                    ELSE Answer(logged,
                                [HRespond(200, TRUE, "souan wo sakusei shimashita", "")
                                    EXCEPT !.data = << <<"repository", Repository>>,
                                                       <<"name", q.name>>,
                                                       <<"baseBranch", q.baseBranch>> >>])]
       /\ UNCHANGED <<remoteVars, localVars>>

----------------------------------------------------------------------------
(* POST /api/git/kousei-irai: handleKouseiIrai *)

ReviewerLists == { <<>>, <<"editor">>, <<"stranger">> }

KouseiIraiBind(r, bindOk, branch, baseBranch, reviewers) ==
    /\ hreq[r].pc = "idle"
    /\ hreq' = [hreq EXCEPT ![r] =
        IF ~bindOk
        THEN Answer([@ EXCEPT !.kind = "kousei-irai"],
                    HRespond(400, FALSE, "request ga fusei desu", "binding"))
        ELSE [@ EXCEPT !.kind = "kousei-irai", !.pc = "pr", !.name = branch,
                       !.baseBranch = BaseBranchOf(baseBranch), !.reviewers = reviewers]]
    /\ UNCHANGED <<host, remoteVars, localVars>>

\* The response after the review request was created: the outcome of the
\* reviewer call (reviewStatus, 0: network error or no call) is only logged.
KouseiIraiResponseFailsOnReviewers(q, reviewStatus) ==
    IF Len(q.reviewers) > 0 /\ reviewStatus \notin {200, 201}
    THEN HRespond(500, FALSE, "reviewer no tsuika ni shippai shimashita", "upstream body")
    ELSE [HRespond(200, TRUE, "kousei irai wo sakusei shimashita", "")
            EXCEPT !.data = << <<"repository", Repository>>,
                               <<"pullRequestNumber", q.number>>,
                               <<"pullRequestURL", PullURL(q.number)>>,
                               <<"reviewers", q.reviewers>> >>]
KouseiIraiResponse(q, reviewStatus) ==
    [HRespond(200, TRUE, "kousei irai wo sakusei shimashita", "")
        EXCEPT !.data = << <<"repository", Repository>>,
                           <<"pullRequestNumber", q.number>>,
                           <<"pullRequestURL", PullURL(q.number)>>,
                           <<"reviewers", q.reviewers>> >>]

\* if len(req.Reviewers) > 0
AsksReviewersAlways(reviewers) == TRUE
AsksReviewers(reviewers) == Len(reviewers) > 0

\* POST of the review request; without reviewers the response follows.
KouseiIraiCreatePR(r, fault) ==
    LET q == hreq[r]
        made == PullsCreate(host, q.name, q.baseBranch)
        status == CASE fault = "neterr" -> 0 [] fault = "upstream" -> 503 [] OTHER -> made.status
        logged == [q EXCEPT !.log = Append(@, HCall("POST pulls", status, NoFileSHA, 0)),
                            !.number = IF status = 201 THEN made.number ELSE 0]
    IN /\ q.kind = "kousei-irai"
       /\ q.pc = "pr"
       /\ host' = IF fault = "none" THEN made.host ELSE host
       /\ hreq' = [hreq EXCEPT ![r] =
            IF fault = "neterr"
            THEN Answer(logged, HRespond(500, FALSE, "kousei irai no sakusei ni shippai shimashita",
                                         "network error"))
            ELSE IF status # 201
            THEN Answer(logged, HRespond(500, FALSE, "kousei irai no sakusei ni shippai shimashita",
                                         "upstream body"))
            ELSE IF AsksReviewers(q.reviewers)
            THEN [logged EXCEPT !.pc = "review"]
            ELSE Answer(logged, KouseiIraiResponse(logged, 0))]
       /\ UNCHANGED <<remoteVars, localVars>>

\* POST of the reviewers, then the response.
KouseiIraiReviewers(r, fault) ==
    LET q == hreq[r]
        asked == ReviewersRequest(host, q.number, q.reviewers)
        status == CASE fault = "neterr" -> 0 [] fault = "upstream" -> 503 [] OTHER -> asked.status
        logged == [q EXCEPT !.log = Append(@, HCall("POST reviewers", status, NoFileSHA, 0))]
    IN /\ q.kind = "kousei-irai"
       /\ q.pc = "review"
       /\ host' = IF fault = "none" THEN asked.host ELSE host
       /\ hreq' = [hreq EXCEPT ![r] = Answer(logged, KouseiIraiResponse(logged, status))]
       /\ UNCHANGED <<remoteVars, localVars>>

----------------------------------------------------------------------------
(* POST /api/git/shusei-irai: handleShuseiIrai *)

\* Bind, the POST of the review request and the response.
HandleShuseiIrai(r, bindOk, branch, baseBranch, fault) ==
    LET q == [hreq[r] EXCEPT !.kind = "shusei-irai", !.name = branch,
                             !.baseBranch = BaseBranchOf(baseBranch)]
        made == PullsCreate(host, q.name, q.baseBranch)
        status == CASE fault = "neterr" -> 0 [] fault = "upstream" -> 503 [] OTHER -> made.status
        logged == [q EXCEPT !.log = Append(@, HCall("POST pulls", status, NoFileSHA, 0)),
                            !.number = IF status = 201 THEN made.number ELSE 0]
    IN /\ hreq[r].pc = "idle"
       /\ host' = IF bindOk /\ fault = "none" THEN made.host ELSE host
       /\ hreq' = [hreq EXCEPT ![r] =
            IF ~bindOk
            THEN Answer([hreq[r] EXCEPT !.kind = "shusei-irai"],
                        HRespond(400, FALSE, "request ga fusei desu", "binding"))
            ELSE IF fault = "neterr"
            THEN Answer(logged, HRespond(500, FALSE, "shusei irai no sakusei ni shippai shimashita",
                                         "network error"))
            ELSE IF status # 201
            THEN Answer(logged, HRespond(500, FALSE, "shusei irai no sakusei ni shippai shimashita",
                                         "upstream body"))
            ELSE Answer(logged,
                        [HRespond(200, TRUE, "shusei irai wo sakusei shimashita", "")
                            EXCEPT !.data = << <<"repository", Repository>>,
                                               <<"pullRequestNumber", logged.number>>,
                                               <<"pullRequestURL", PullURL(logged.number)>> >>])]
       /\ UNCHANGED <<remoteVars, localVars>>

\* POST /api/git/souan-switch: the client keeps track of the draft it works
\* on; the handler binds the request and answers. The message names the
\* draft too; the model carries the name in the data only.
SouanSwitchResponseChecksDraft(q) ==
    IF q.name \notin RemoteBranches \/ host.refs[q.name] = 0
    THEN HRespond(404, FALSE, "souan ga mitsukarimasen", "not found")
    ELSE [HRespond(200, TRUE, "souan ni kirikaemashita", "")
            EXCEPT !.data = << <<"repository", Repository>>, <<"name", q.name>> >>]

SouanSwitchResponse(q) ==
    [HRespond(200, TRUE, "souan ni kirikaemashita", "")
        EXCEPT !.data = << <<"repository", Repository>>, <<"name", q.name>> >>]

HandleSouanSwitch(r, bindOk, name) ==
    LET q == [hreq[r] EXCEPT !.kind = "souan-switch", !.name = name]
    IN /\ hreq[r].pc = "idle"
       /\ hreq' = [hreq EXCEPT ![r] =
            IF ~bindOk
            THEN Answer([hreq[r] EXCEPT !.kind = "souan-switch"],
                        HRespond(400, FALSE, "request ga fusei desu", "binding"))
            ELSE Answer(q, SouanSwitchResponse(q))]
       /\ UNCHANGED host
       /\ UNCHANGED <<remoteVars, localVars>>

----------------------------------------------------------------------------
(* GET /api/repositories, GET /api/git/souan-list,                        *)
(* GET /api/git/repository-info: the token comes in the Authorization     *)
(* header, the repository in the query                                    *)

\* GET /user/repos: the repositories of the identity.
UserReposGet(h) ==
    IF h.settingsRepo THEN <<Repository, "tenkai-settings">> ELSE <<Repository>>

\* GET /repos/{repo}/branches: the branches that exist, each with its tip.
RECURSIVE BranchList(_, _)
BranchList(h, names) ==
    IF names = {} THEN <<>>
    ELSE LET b == CHOOSE b \in names : TRUE
         IN (IF h.refs[b] = 0 THEN <<>> ELSE << <<b, h.refs[b]>> >>)
            \o BranchList(h, names \ {b})
BranchesGet(h) == BranchList(h, RemoteBranches)

\* The status of the answer of a backend call that was issued.
CallStatus(fault) == CASE fault = "neterr" -> 0 [] fault = "upstream" -> 503 [] OTHER -> 200

HandleGetRepositories(r, header, fault) ==
    /\ hreq[r].pc = "idle"
    /\ LET q == [IdleHReq EXCEPT !.kind = "repositories"]
           called == [q EXCEPT !.log = <<HCall("GET repos", CallStatus(fault), NoFileSHA, 0)>>]
       IN hreq' = [hreq EXCEPT ![r] =
            IF ~header
            THEN Answer(q, HRespond(401, FALSE, "ninshou ga hitsuyou desu", ""))
            ELSE IF fault # "none"
            THEN Answer(called, HRespond(500, FALSE, "repository ichiran no shutoku ni shippai",
                                         IF fault = "neterr" THEN "network error"
                                         ELSE "GitHub API error"))
            ELSE Answer(called, [HRespond(200, TRUE, "", "") EXCEPT !.data = UserReposGet(host)])]
    /\ UNCHANGED <<host, remoteVars, localVars>>

\* if accessToken == "" || repository == "" { 400 }
HandleSouanList(r, header, repository, fault) ==
    /\ hreq[r].pc = "idle"
    /\ LET q == [IdleHReq EXCEPT !.kind = "souan-list"]
           called == [q EXCEPT !.log = <<HCall("GET branches", CallStatus(fault), NoFileSHA, 0)>>]
       IN hreq' = [hreq EXCEPT ![r] =
            IF ~header \/ ~repository
            THEN Answer(q, HRespond(400, FALSE, "ninshou token to repository mei ga hitsuyou desu", ""))
            ELSE IF fault # "none"
            THEN Answer(called, HRespond(500, FALSE, "souan ichiran no shutoku ni shippai",
                                         IF fault = "neterr" THEN "network error"
                                         ELSE "GitHub API error"))
            ELSE Answer(called, [HRespond(200, TRUE, "", "") EXCEPT !.data = BranchesGet(host)])]
    /\ UNCHANGED <<host, remoteVars, localVars>>

HandleRepositoryInfo(r, header, repository, fault) ==
    /\ hreq[r].pc = "idle"
    /\ LET q == [IdleHReq EXCEPT !.kind = "repository-info"]
           called == [q EXCEPT !.log = <<HCall("GET repo", CallStatus(fault), NoFileSHA, 0)>>]
       IN hreq' = [hreq EXCEPT ![r] =
            IF ~header \/ ~repository
            THEN Answer(q, HRespond(400, FALSE, "ninshou token to repository mei ga hitsuyou desu", ""))
            ELSE IF fault # "none"
            THEN Answer(called, HRespond(500, FALSE, "repository jouhou no shutoku ni shippai",
                                         IF fault = "neterr" THEN "network error"
                                         ELSE "GitHub API error"))
            ELSE Answer(called, [HRespond(200, TRUE, "", "")
                                    EXCEPT !.data = << <<"full_name", Repository>> >>])]
    /\ UNCHANGED <<host, remoteVars, localVars>>

----------------------------------------------------------------------------
(* handleInit, requests running concurrently: every request runs in its   *)
(* own goroutine and the globals repo and workDir are not guarded, so the *)
(* handler is a sequence of separate reads and writes of them             *)

\* workDir = req.WorkDir
InitBind(r, bindOk, d) ==
    /\ hreq[r].pc = "idle"
    /\ IF ~bindOk
       THEN /\ hreq' = [hreq EXCEPT ![r] =
                    Answer([@ EXCEPT !.kind = "init"],
                           HRespond(400, FALSE, "request ga fusei desu", "binding"))]
            /\ UNCHANGED workDir
       ELSE /\ hreq' = [hreq EXCEPT ![r] = [@ EXCEPT !.kind = "init", !.pc = "open", !.name = d]]
            /\ workDir' = d
    /\ UNCHANGED <<disk, repo, genClient, now, loc, lresp, host, remoteVars>>

\* The path the calls of go-git are given: the global workDir as it is when
\* the call is made, not the request's field.
CallPathOwn(q, w) == q.name
CallPath(q, w) == w

\* git.PlainOpen(workDir): the call, before its results are assigned.
InitPlainOpen(r) ==
    LET q == hreq[r]
        path == CallPath(q, workDir)
    IN /\ q.kind = "init"
       /\ q.pc = "open"
       /\ hreq' = [hreq EXCEPT ![r] =
            [q EXCEPT !.pc = "assignOpen", !.path = path,
                      !.handle = IF PlainOpenFails(disk[path]) THEN Nil ELSE path]]
       /\ UNCHANGED <<disk, repo, workDir, genClient, now, loc, lresp, host, remoteVars>>

\* repo, err = ...: repo is assigned what the call returned, nil with an error.
InitAssignOpen(r) ==
    LET q == hreq[r]
    IN /\ q.kind = "init"
       /\ q.pc = "assignOpen"
       /\ repo' = q.handle
       /\ hreq' = [hreq EXCEPT ![r].pc = IF q.handle = Nil THEN "init" ELSE "respond"]
       /\ UNCHANGED <<disk, workDir, genClient, now, loc, lresp, host, remoteVars>>

\* git.PlainInit(workDir, false): fails when the directory holds a repository
\* already, or cannot be written.
InitPlainInit(r, initFails) ==
    LET q == hreq[r]
        path == CallPath(q, workDir)
        fails == initFails \/ ~PlainOpenFails(disk[path])
    IN /\ q.kind = "init"
       /\ q.pc = "init"
       /\ disk' = IF fails THEN disk ELSE [disk EXCEPT ![path] = PlainInit(disk[path])]
       /\ hreq' = [hreq EXCEPT ![r] =
            [q EXCEPT !.pc = "assignInit", !.path = path,
                      !.handle = IF fails THEN Nil ELSE path]]
       /\ UNCHANGED <<repo, workDir, genClient, now, loc, lresp, host, remoteVars>>

\* repo, err = ...; if err != nil { 500 }
InitAssignInit(r) ==
    LET q == hreq[r]
    IN /\ q.kind = "init"
       /\ q.pc = "assignInit"
       /\ repo' = q.handle
       /\ hreq' = [hreq EXCEPT ![r] =
            IF q.handle = Nil
            THEN Answer(q, HRespond(500, FALSE, "repository no shokika ni shippai", "init failed"))
            ELSE [q EXCEPT !.pc = "respond"]]
       /\ UNCHANGED <<disk, workDir, genClient, now, loc, lresp, host, remoteVars>>

\* c.JSON(http.StatusOK, ... "workDir": workDir ...)
InitRespond(r) ==
    LET q == hreq[r]
    IN /\ q.kind = "init"
       /\ q.pc = "respond"
       /\ hreq' = [hreq EXCEPT ![r] =
            Answer(q, [HRespond(200, TRUE, "genkou kanri wo kaishi", "")
                        EXCEPT !.data = << <<"workDir", workDir>>,
                                           <<"aiEnabled", genClient>> >>])]
       /\ UNCHANGED <<disk, repo, workDir, genClient, now, loc, lresp, host, remoteVars>>

----------------------------------------------------------------------------
(* handleSave, requests running concurrently: w.Add and w.Commit are two   *)
(* calls on the repository with nothing that keeps other handlers out     *)
(* between them                                                            *)

\* ShouldBindJSON, the nil check, repo.Worktree() and w.Add("."). handle is
\* the repository w belongs to; name is history: the draft that was current
\* when the request started.
SaveAdd(r, bindOk, message) ==
    /\ hreq[r].pc = "idle"
    /\ IF ~bindOk
       THEN /\ hreq' = [hreq EXCEPT ![r] =
                    Answer([@ EXCEPT !.kind = "save"],
                           HRespond(400, FALSE, "request ga fusei desu", "binding"))]
            /\ UNCHANGED disk
       ELSE IF repo = Nil
       THEN /\ hreq' = [hreq EXCEPT ![r] =
                    Answer([@ EXCEPT !.kind = "save"],
                           HRespond(400, FALSE, "saki ni shokika shite kudasai", ""))]
            /\ UNCHANGED disk
       ELSE /\ disk' = [disk EXCEPT ![repo] = AddAll(disk[repo])]
            /\ hreq' = [hreq EXCEPT ![r] =
                    [@ EXCEPT !.kind = "save", !.pc = "commit", !.handle = repo,
                              !.name = disk[repo].head,
                              !.commitMessage = InitialMessage(message, now)]]
    /\ UNCHANGED <<repo, workDir, genClient, now, loc, lresp, host, remoteVars>>

\* The repository w.Commit works on: the one of w, with HEAD as it is when
\* the call is made.
CommitWorktreeAsStaged(q, rs) == [rs EXCEPT !.head = q.name]
CommitWorktree(q, rs) == rs

\* w.Commit(commitMessage, ...) and the response.
SaveCommitCall(r, emptyOK) ==
    LET q == hreq[r]
        rs == CommitWorktree(q, disk[q.handle])
        id == Len(rs.commits) + 1
    IN /\ q.kind = "save"
       /\ q.pc = "commit"
       /\ IF ~HasStaged(rs) /\ ~emptyOK
          THEN /\ hreq' = [hreq EXCEPT ![r] =
                    Answer(q, HRespond(500, FALSE, "hozon ni shippai shimashita",
                                       "clean working tree"))]
               /\ UNCHANGED disk
          ELSE /\ disk' = [disk EXCEPT ![q.handle] = Commit(rs, q.commitMessage, now)]
               /\ hreq' = [hreq EXCEPT ![r] =
                    Answer(q, [HRespond(200, TRUE, "hozon shimashita", "")
                                EXCEPT !.data = << <<"commit", ShortID(id)>>,
                                                   <<"message", q.commitMessage>> >>])]
       /\ UNCHANGED <<repo, workDir, genClient, now, loc, lresp, host, remoteVars>>

----------------------------------------------------------------------------
(* Specifications *)

\* No file on the branch and no souan-teishutsu request.
RemoteIdle ==
    /\ srv = [p \in Paths |-> Absent]
    /\ req = [r \in Reqs |-> IdleReq]
    /\ snap = srv
    /\ touched = {}
    /\ HostIdle

\* Remote Engine: the branch holds any files when the two requests arrive.
InitRemote ==
    /\ srv \in [Paths -> Contents \cup {Absent}]
    /\ req = [r \in Reqs |-> IdleReq]
    /\ snap = srv
    /\ touched = {}
    /\ HostIdle
    /\ LocalIdle
    /\ genClient = FALSE

NextRemote ==
    \/ \E r \in Reqs, bindOk \in BOOLEAN, branch \in BranchInputs :
        \E files \in FileLists(r) :
            SouanTeishutsuBind(r, bindOk, files, branch)
    \/ \E r \in Reqs, neterr \in BOOLEAN : SouanTeishutsuGet(r, neterr)
    \/ \E r \in Reqs, fault \in {"none", "neterr", "upstream"} : SouanTeishutsuPut(r, fault)

SpecRemote == InitRemote /\ [][NextRemote]_vars

\* The repository has room for another revision.
CanCommit(max) == repo # Nil => NumCommits(repo) < max

\* Local Engine, drafts: requests handled one after another, no generated
\* messages.
InitLocal ==
    /\ RemoteIdle
    /\ LocalIdle
    /\ genClient = FALSE

NextLocal ==
    \/ \E bindOk \in BOOLEAN, initFails \in BOOLEAN : HandleInit(bindOk, "d1", initFails)
    \/ \E f \in WFiles, new \in BOOLEAN : Edit("d1", f, new)
    \/ \E bindOk \in BOOLEAN, emptyOK \in BOOLEAN :
        CanCommit(MaxCommits) /\ HandleSave(bindOk, <<"m1">>, FALSE, emptyOK)
    \/ \E bindOk \in BOOLEAN, name \in DraftNames : HandleDraftCreate(bindOk, name)
    \/ HandleDraftList
    \/ \E bindOk \in BOOLEAN, name \in DraftNames : HandleDraftSwitch(bindOk, name)
    \/ HandleStatus

SpecLocal == InitLocal /\ [][NextLocal]_vars

\* Local Engine, save: the text-generation client is configured or not (main
\* sets it from the environment), the clock runs, the collaborator answers
\* anything or does not answer.
InitSave ==
    /\ RemoteIdle
    /\ LocalIdle
    /\ genClient \in BOOLEAN

NextSave ==
    \/ \E bindOk \in BOOLEAN : HandleInit(bindOk, "d1", FALSE)
    \/ \E new \in BOOLEAN : Edit("d1", "f1", new)
    \/ Tick
    \/ \E bindOk \in BOOLEAN, message \in UserMessages, useAI \in BOOLEAN, emptyOK \in BOOLEAN :
        CanCommit(MaxCommitsSave) /\ HandleSave(bindOk, message, useAI, emptyOK)
    \/ \E out \in AIOutcomes : GenerateContentReturns(out)
    \/ \E emptyOK \in BOOLEAN : SaveAfterAI(emptyOK)
    \/ HandleStatus

SpecSave == InitSave /\ [][NextSave]_vars

\* The handler's own steps are taken when they can be; nothing obliges the
\* collaborator to answer.
SpecSaveFair ==
    InitSave /\ [][NextSave]_vars /\ WF_vars(\E emptyOK \in BOOLEAN : SaveAfterAI(emptyOK))

\* Local Engine, history: long lines of revisions; drafts are created and
\* switched, and the clock advances, while the repository is small.
InitHistory ==
    /\ RemoteIdle
    /\ LocalIdle
    /\ genClient = FALSE

NextHistory ==
    \/ HandleInit(TRUE, "d1", FALSE)
    \/ Edit("d1", "f1", TRUE)
    \/ CanCommit(MaxCommits) /\ Tick
    \/ \E emptyOK \in BOOLEAN :
        CanCommit(MaxCommitsHistory) /\ HandleSave(TRUE, <<"m1">>, FALSE, emptyOK)
    \/ \E name \in {"master", "chapter2"} :
        CanCommit(MaxCommits) /\ HandleDraftCreate(TRUE, name)
    \/ \E name \in {"master", "chapter2"} :
        CanCommit(MaxCommits) /\ HandleDraftSwitch(TRUE, name)
    \/ HandleHistory

SpecHistory == InitHistory /\ [][NextHistory]_vars

\* Local Engine, init: requests name either directory, opening or creating a
\* repository may fail, and every operation may arrive before or after init.
InitOpen ==
    /\ RemoteIdle
    /\ LocalIdle
    /\ genClient = FALSE

NextOpen ==
    \/ \E bindOk \in BOOLEAN, d \in Dirs, initFails \in BOOLEAN : HandleInit(bindOk, d, initFails)
    \/ \E new \in BOOLEAN : Edit("d1", "f1", new)
    \/ \E bindOk \in BOOLEAN, emptyOK \in BOOLEAN :
        CanCommit(MaxCommitsSave) /\ HandleSave(bindOk, <<"m1">>, FALSE, emptyOK)
    \/ HandleHistory
    \/ \E bindOk \in BOOLEAN, name \in {"master", "chapter2"} : HandleDraftCreate(bindOk, name)
    \/ HandleDraftList
    \/ \E bindOk \in BOOLEAN, name \in {"master", "chapter2"} : HandleDraftSwitch(bindOk, name)
    \/ HandleStatus

SpecOpen == InitOpen /\ [][NextOpen]_vars

\* Settings Store: the identity's settings file holds anything when the two
\* requests arrive; every backend call may fail.
InitSettings ==
    /\ srv = [p \in Paths |-> Absent]
    /\ req = [r \in Reqs |-> IdleReq]
    /\ snap = srv
    /\ touched = {}
    /\ LocalIdle
    /\ genClient = FALSE
    /\ \E file \in PriorFiles, exists \in BOOLEAN :
        /\ file # NoFile => exists
        /\ host = [settingsRepo |-> exists, settingsFile |-> file,
                   refs |-> [b \in RemoteBranches |-> 0], pulls |-> <<>>]
    /\ hreq = [r \in Reqs |-> IdleHReq]

NextSettings ==
    \/ \E r \in Reqs, header \in BOOLEAN, userFault \in BOOLEAN, fault \in Faults :
        HandleGetSettings(r, header, userFault, fault)
    \/ \E r \in Reqs, bindOk \in BOOLEAN, userFault \in BOOLEAN, settings \in SettingsInputs :
        SaveSettingsBind(r, bindOk, userFault, settings)
    \/ \E r \in Reqs, fault \in Faults : SaveSettingsRead(r, fault)
    \/ \E r \in Reqs, fault \in Faults : SaveSettingsSHA(r, fault)
    \/ \E r \in Reqs, fault \in Faults : SaveSettingsEnsure(r, fault)
    \/ \E r \in Reqs, fault \in Faults : SaveSettingsCreate(r, fault)
    \/ \E r \in Reqs, fault \in Faults : SaveSettingsPut(r, fault)
    \/ HostTick

SpecSettings == InitSettings /\ [][NextSettings]_vars

\* /api/git/souan-create and /api/git/kousei-irai: two requests against a
\* manuscript repository whose main branch exists, while others push to it.
InitGit ==
    /\ srv = [p \in Paths |-> Absent]
    /\ req = [r \in Reqs |-> IdleReq]
    /\ snap = srv
    /\ touched = {}
    /\ LocalIdle
    /\ genClient = FALSE
    /\ \E souan1 \in {0, 1} :
        host = [settingsRepo |-> FALSE, settingsFile |-> NoFile,
                refs |-> [b \in RemoteBranches |-> IF b = "main" THEN 1 ELSE souan1],
                pulls |-> <<>>]
    /\ hreq = [r \in Reqs |-> IdleHReq]

NextGit ==
    \/ \E r \in Reqs, bindOk \in BOOLEAN, name \in RemoteBranches, baseBranch \in {"", "souan1"} :
        SouanCreateBind(r, bindOk, name, baseBranch)
    \/ \E r \in Reqs, fault \in Faults : SouanCreateReadBase(r, fault)
    \/ \E r \in Reqs, fault \in Faults : SouanCreateRef(r, fault)
    \/ \E r \in Reqs, bindOk \in BOOLEAN, reviewers \in ReviewerLists :
        KouseiIraiBind(r, bindOk, "souan1", "", reviewers)
    \/ \E r \in Reqs, fault \in Faults : KouseiIraiCreatePR(r, fault)
    \/ \E r \in Reqs, fault \in Faults : KouseiIraiReviewers(r, fault)
    \/ \E r \in Reqs, bindOk \in BOOLEAN, fault \in Faults :
        HandleShuseiIrai(r, bindOk, "souan1", "", fault)
    \/ \E r \in Reqs, bindOk \in BOOLEAN, name \in {"souan1", "ghost"} :
        HandleSouanSwitch(r, bindOk, name)
    \/ \E branch \in RemoteBranches : Push(branch)

SpecGit == InitGit /\ [][NextGit]_vars

\* Two init requests running concurrently in a process that has not opened
\* a repository.
InitRace ==
    /\ RemoteIdle
    /\ LocalIdle
    /\ genClient = FALSE

NextRace ==
    \/ \E r \in Reqs, bindOk \in BOOLEAN, d \in Dirs : InitBind(r, bindOk, d)
    \/ \E r \in Reqs : InitPlainOpen(r)
    \/ \E r \in Reqs : InitAssignOpen(r)
    \/ \E r \in Reqs, initFails \in BOOLEAN : InitPlainInit(r, initFails)
    \/ \E r \in Reqs : InitAssignInit(r)
    \/ \E r \in Reqs : InitRespond(r)

SpecRace == InitRace /\ [][NextRace]_vars

\* Two save requests running concurrently with the draft requests and the
\* saves of a process that has opened a repository.
InitSaveRace ==
    /\ RemoteIdle
    /\ LocalIdle
    /\ genClient = FALSE

NextSaveRace ==
    \/ HandleInit(TRUE, "d1", FALSE)
    \/ \E new \in BOOLEAN : Edit("d1", "f1", new)
    \/ \E emptyOK \in BOOLEAN :
        CanCommit(MaxCommitsSave) /\ HandleSave(TRUE, <<"m1">>, FALSE, emptyOK)
    \/ \E r \in Reqs, bindOk \in BOOLEAN : SaveAdd(r, bindOk, <<"m2">>)
    \/ \E r \in Reqs, emptyOK \in BOOLEAN : SaveCommitCall(r, emptyOK)
    \/ \E name \in {"master", "chapter2"} : HandleDraftCreate(TRUE, name)
    \/ \E name \in {"master", "chapter2"} : HandleDraftSwitch(TRUE, name)

SpecSaveRace == InitSaveRace /\ [][NextSaveRace]_vars

\* The endpoints that take the token from the Authorization header: two
\* requests, with or without the header and the query.
InitAuth ==
    /\ srv = [p \in Paths |-> Absent]
    /\ req = [r \in Reqs |-> IdleReq]
    /\ snap = srv
    /\ touched = {}
    /\ LocalIdle
    /\ genClient = FALSE
    /\ \E file \in PriorFiles, exists \in BOOLEAN, souan1 \in {0, 1} :
        /\ file # NoFile => exists
        /\ host = [settingsRepo |-> exists, settingsFile |-> file,
                   refs |-> [b \in RemoteBranches |-> IF b = "main" THEN 1 ELSE souan1],
                   pulls |-> <<>>]
    /\ hreq = [r \in Reqs |-> IdleHReq]

NextAuth ==
    \/ \E r \in Reqs, header \in BOOLEAN, userFault \in BOOLEAN, fault \in Faults :
        HandleGetSettings(r, header, userFault, fault)
    \/ \E r \in Reqs, header \in BOOLEAN, fault \in Faults :
        HandleGetRepositories(r, header, fault)
    \/ \E r \in Reqs, header \in BOOLEAN, repository \in BOOLEAN, fault \in Faults :
        HandleSouanList(r, header, repository, fault)
    \/ \E r \in Reqs, header \in BOOLEAN, repository \in BOOLEAN, fault \in Faults :
        HandleRepositoryInfo(r, header, repository, fault)

SpecAuth == InitAuth /\ [][NextAuth]_vars

----------------------------------------------------------------------------
(* Remote Engine: properties of submit_files *)

FileAt(r) == req[r].files[req[r].i]

\* The PUT calls a request has issued.
Puts(r) == { n \in DOMAIN req[r].log : req[r].log[n].op = "PUT" }
Gets(r) == { n \in DOMAIN req[r].log : req[r].log[n].op = "GET" }

\* The service accepted the PUT (its content is now on the branch).
Accepted(call) == call.op = "PUT" /\ call.status \in {200, 201}

\* The request ended on a failed write of file k.
FailedAt(r, k) ==
    /\ req[r].pc = "done"
    /\ req[r].i = k
    /\ req[r].log # <<>>
    /\ ~Accepted(req[r].log[Len(req[r].log)])

\* C1: a content-update call whose hash differs from the hash the service
\* stores for the path is never applied: the step that issues it leaves the
\* branch unchanged and ends the request with the 500 failure response, whose
\* error is the service's Conflict answer whenever the service answered a
\* call that carried a hash.
C1_StaleHashNeverApplied ==
    [][\A r \in Reqs :
        (/\ req[r].pc = "put"
         /\ req'[r] # req[r]
         /\ req[r].existingSHA # StoredSHA(srv[FileAt(r).path]))
        => /\ srv' = srv
           /\ req'[r].pc = "done"
           /\ req'[r].resp.success = FALSE
           /\ req'[r].resp.code = 500
           /\ req'[r].resp.error \in {"Conflict", "ShaNotSupplied", "NetworkError", "Unavailable"}
           /\ (req[r].existingSHA # NoSHA
                    /\ req'[r].resp.error \notin {"NetworkError", "Unavailable"})
                => req'[r].resp.error = "Conflict"]_vars

\* C1 witness: a request that ended with Conflict on a PUT carrying a hash that
\* is not the stored one.
C1_Witness ==
    \E r \in Reqs :
        /\ req[r].pc = "done"
        /\ req[r].resp.error = "Conflict"
        /\ req[r].existingSHA # NoSHA
        /\ req[r].existingSHA # StoredSHA(srv[FileAt(r).path])
        /\ req[r].log[Len(req[r].log)].status = 409

\* C2: when the write of file k is the first to fail, the request has issued
\* exactly GET 1, PUT 1, ..., GET k, PUT k (nothing for files k+1..N), files
\* 1..k-1 hold the submitted content and files k..N are as they were when the
\* request arrived (a path the concurrent request wrote meanwhile excepted).
C2_PrefixCommitted ==
    \A k \in 1..MaxFiles :
        FailedAt(1, k) =>
            /\ Len(req[1].log) = 2 * k
            /\ \A n \in 1..k :
                /\ req[1].log[2 * n - 1].op = "GET" /\ req[1].log[2 * n - 1].idx = n
                /\ req[1].log[2 * n].op = "PUT" /\ req[1].log[2 * n].idx = n
            /\ \A j \in DOMAIN req[1].files :
                LET f == req[1].files[j]
                IN f.path \notin touched =>
                      srv[f.path] = IF j < k THEN f.content ELSE snap[f.path]

\* C2 witness: a two-file submit failed at file 2 with file 1 committed, its
\* content new to the branch, and file 2's path untouched by anyone.
C2_Witness ==
    /\ FailedAt(1, 2)
    /\ touched = {}
    /\ srv[req[1].files[1].path] = req[1].files[1].content
    /\ snap[req[1].files[1].path] # req[1].files[1].content
    /\ srv[req[1].files[2].path] = snap[req[1].files[2].path]

\* C3 (as claimed): a submit that failed at file k after files 1..k-1 were
\* committed answers with an otherwise-successful response.
C3_PartialSuccessReported ==
    \A r \in Reqs, k \in 2..MaxFiles :
        FailedAt(r, k) => req[r].resp.success = TRUE /\ req[r].resp.code = 200

\* C4 (as claimed): of two writers of one path that carried the same hash (or
\* both none), at most one has its content applied.
C4_AtMostOneApplied ==
    \A m \in Puts(1), n \in Puts(2) :
        LET c1 == req[1].log[m]
            c2 == req[2].log[n]
        IN (/\ req[1].files[c1.idx].path = req[2].files[c2.idx].path
            /\ c1.sha = c2.sha)
           => ~(Accepted(c1) /\ Accepted(c2))

\* C4 (amended): a PUT that is stale when it arrives is not accepted and ends
\* its request with the failure response; an accepted PUT carried exactly the
\* hash stored at that moment; and two writers of one path that carried the
\* same hash are both applied only when one of them submitted the very content
\* that hash identifies (a write that leaves content and hash unchanged).
C4_NoLostUpdate ==
    /\ \A r \in Reqs : \A n \in Puts(r) :
            LET c == req[r].log[n]
            IN /\ Accepted(c) => c.sha = c.stored
               /\ c.sha # c.stored =>
                    /\ n = Len(req[r].log)
                    /\ req[r].pc = "done"
                    /\ req[r].resp.success = FALSE
                    /\ (c.status = 409 => req[r].resp.error = "Conflict")
    /\ \A m \in Puts(1), n \in Puts(2) :
        LET c1 == req[1].log[m]
            c2 == req[2].log[n]
        IN (/\ req[1].files[c1.idx].path = req[2].files[c2.idx].path
            /\ c1.sha = c2.sha
            /\ Accepted(c1) /\ Accepted(c2))
           => \/ BlobSHA(req[1].files[c1.idx].content) = c1.sha
              \/ BlobSHA(req[2].files[c2.idx].content) = c2.sha

\* C4 witness: both writers read the same hash of one path; one was applied
\* and the other, stale by then, failed with Conflict.
C4_Witness ==
    \E m \in Puts(1), n \in Puts(2) :
        LET c1 == req[1].log[m]
            c2 == req[2].log[n]
        IN /\ req[1].files[c1.idx].path = req[2].files[c2.idx].path
           /\ c1.sha = c2.sha /\ c1.sha # NoSHA
           /\ Accepted(c1) /\ ~Accepted(c2) /\ c2.status = 409
           /\ req[2].pc = "done" /\ req[2].resp.error = "Conflict"

----------------------------------------------------------------------------
(* Local Engine: properties of history, create_draft and save *)

\* The revision k parent links behind h (0 beyond the root), and the number
\* of revisions on the line of h.
RECURSIVE Ancestor(_, _, _)
Ancestor(rs, h, k) == IF k = 0 \/ h = 0 THEN h ELSE Ancestor(rs, rs.commits[h].parent, k - 1)
RECURSIVE Depth(_, _)
Depth(rs, h) == IF h = 0 THEN 0 ELSE 1 + Depth(rs, rs.commits[h].parent)

\* C5: a history answer lists the revisions of the current draft's line from
\* its tip along the parent links: entry 1 is the tip, entry i+1 is the parent
\* of entry i's revision, which was created earlier and is not dated later;
\* the list has min(20, length of the line) entries, never more than 20.
C5_HistoryNewestFirst ==
    (lresp.op = "history" /\ lresp.success) =>
        LET rs == disk[repo]
            tip == HeadHash(rs)
            h == lresp.history
        IN /\ Len(h) <= 20
           /\ Len(h) = IF Depth(rs, tip) < 20 THEN Depth(rs, tip) ELSE 20
           /\ \A i \in DOMAIN h :
                LET id == Ancestor(rs, tip, i - 1)
                IN /\ id # 0
                   /\ h[i].id = SubSeq(HashString(id), 1, 7)
                   /\ h[i].message = rs.commits[id].message
                   /\ h[i].date = FormatTime(rs.commits[id].when)
                   /\ h[i].author = rs.commits[id].author
           /\ \A i \in 1..(Len(h) - 1) :
                /\ Ancestor(rs, tip, i) < Ancestor(rs, tip, i - 1)
                /\ rs.commits[Ancestor(rs, tip, i)].when
                        <= rs.commits[Ancestor(rs, tip, i - 1)].when

\* C5 witness: a history answer of 20 entries for a line of more than 20
\* revisions, in a repository holding a revision that is not on that line.
C5_Witness ==
    /\ lresp.op = "history" /\ lresp.success
    /\ Len(lresp.history) = 20
    /\ Depth(disk[repo], HeadHash(disk[repo])) > 20
    /\ Depth(disk[repo], HeadHash(disk[repo])) < NumCommits(repo)

\* C6: create_draft with the name of an existing draft answers 500 with the
\* backend's "already exists" error, and every ref and the current draft are
\* as they were before the call.
C6_CreateExistingFails ==
    [][\A name \in DraftNames :
        (/\ repo # Nil
         /\ disk[repo].refs[name] # 0
         /\ HandleDraftCreate(TRUE, name))
        => /\ lresp'.op = "draft/create"
           /\ lresp'.code = 500
           /\ lresp'.success = FALSE
           /\ lresp'.error = "a branch named already exists"
           /\ disk'[repo].refs = disk[repo].refs
           /\ disk'[repo].head = disk[repo].head]_vars

\* C6 witness: a create_draft refused for a draft that exists, is not the
\* current one and points at another revision than the current tip.
C6_Witness ==
    /\ lresp.op = "draft/create"
    /\ lresp.error = "a branch named already exists"
    /\ disk[repo].refs[lresp.arg] # 0
    /\ lresp.arg # disk[repo].head
    /\ disk[repo].refs[lresp.arg] # HeadHash(disk[repo])

\* C7: a successful create_draft(name) leaves a ref name at the revision that
\* was the current tip before the call and makes it the current draft; the
\* list_drafts that follows it succeeds and contains {name, current: true}.
C7_CreatedAtTipAndListed ==
    [][/\ \A name \in DraftNames :
            (/\ lresp'.success
             /\ repo # Nil
             /\ HandleDraftCreate(TRUE, name))
            => /\ ~HeadFails(disk[repo])
               /\ disk[repo].refs[name] = 0
               /\ disk'[repo].refs[name] = HeadHash(disk[repo])
               /\ disk'[repo].head = name
       /\ (/\ lresp.op = "draft/create"
           /\ lresp.success
           /\ HandleDraftList)
            => /\ lresp'.success
               /\ [name |-> lresp.arg, current |-> TRUE] \in lresp'.drafts]_vars

\* C7 witness: create_draft has just succeeded from a draft whose tip is not
\* the first revision; the new draft is current and points at that tip.
C7_Witness ==
    /\ lresp.op = "draft/create" /\ lresp.success
    /\ disk[repo].head = lresp.arg
    /\ disk[repo].refs[lresp.arg] > 1
    /\ \E n \in DraftNames \ {lresp.arg} : disk[repo].refs[n] = disk[repo].refs[lresp.arg]

\* The save of this step created a revision, moved the current draft to it,
\* and answered with the first 7 characters of its id and its message.
AnswersRevision ==
    LET id == Len(disk[repo].commits) + 1
    IN /\ Len(disk'[repo].commits) = id
       /\ HeadHash(disk'[repo]) = id
       /\ lresp'.code = 200
       /\ Len(lresp'.commit) = 7
       /\ lresp'.commit = SubSeq(HashString(id), 1, 7)
       /\ lresp'.cmsg = disk'[repo].commits[id].message

\* C8: a successful save (answered at once or after the collaborator's
\* answer) returns the first 7 characters of the id of the revision it
\* created and the message stored in it; with an empty request message and
\* useAI false that message is "<timestamp> - jidou hozon".
C8_SaveReturnsShortIdAndMessage ==
    [][/\ \A message \in UserMessages, useAI \in BOOLEAN, emptyOK \in BOOLEAN :
            (/\ lresp'.success
             /\ repo # Nil
             /\ HandleSave(TRUE, message, useAI, emptyOK))
            => /\ AnswersRevision
               /\ (message = <<>> /\ ~useAI)
                    => lresp'.cmsg = <<FormatTime(now), " - jidou hozon">>
       /\ \A emptyOK \in BOOLEAN :
            (lresp'.success /\ SaveAfterAI(emptyOK)) => AnswersRevision]_vars

\* C8 witness: without a text-generation client, a save answered with the
\* default message, stored in the second revision of the draft.
C8_Witness ==
    /\ ~genClient
    /\ lresp.op = "save" /\ lresp.success
    /\ lresp.cmsg = <<FormatTime(now), " - jidou hozon">>
    /\ HeadHash(disk[repo]) = 2
    /\ lresp.commit = SubSeq(HashString(2), 1, 7)
    /\ disk[repo].commits[2].message = lresp.cmsg

\* The collaborator returned an error, or no candidate with a part.
GenerationFailed(out) ==
    out.err \/ \A n \in DOMAIN out.candidates : out.candidates[n] = <<>>

\* C9: when message generation fails, the save commits the index it staged
\* and answers 200 success with the request's message if it is not empty
\* and otherwise the default message of the time the request was handled.
C9_GenerationFailureFallsBack ==
    [][\A emptyOK \in BOOLEAN :
        (SaveAfterAI(emptyOK) /\ GenerationFailed(loc.out))
        => /\ lresp'.op = "save"
           /\ lresp'.success
           /\ lresp'.code = 200
           /\ Len(disk'[repo].commits) = Len(disk[repo].commits) + 1
           /\ \A f \in WFiles : disk'[repo].status[f].Staging = Unmodified
           /\ disk'[repo].commits[HeadHash(disk'[repo])].message = lresp'.cmsg
           /\ IF loc.reqMessage # <<>>
              THEN lresp'.cmsg = loc.reqMessage
              ELSE \E t \in 0..now : lresp'.cmsg = <<FormatTime(t), " - jidou hozon">>]_vars

\* C9 witness: a save with an empty message whose generation call returned
\* an error has answered success with the default message.
C9_Witness ==
    /\ loc.pc = "idle" /\ loc.out.err /\ loc.reqMessage = <<>>
    /\ lresp.op = "save" /\ lresp.success
    /\ lresp.cmsg = loc.commitMessage
    /\ \E t \in 0..now : lresp.cmsg = <<FormatTime(t), " - jidou hozon">>

\* C10 (as claimed): a save that waits for the collaborator always
\* eventually answers, whether or not the collaborator does.
C10_SaveEventuallyAnswers == (loc.pc = "waitAI") ~> (lresp.op = "save")

\* A well-formed request of a Local Engine operation other than init is
\* handled in this step.
LocalOperation ==
    \/ \E message \in UserMessages, useAI \in BOOLEAN, emptyOK \in BOOLEAN :
        HandleSave(TRUE, message, useAI, emptyOK)
    \/ HandleHistory
    \/ \E name \in DraftNames : HandleDraftCreate(TRUE, name)
    \/ HandleDraftList
    \/ \E name \in DraftNames : HandleDraftSwitch(TRUE, name)
    \/ HandleStatus

\* C11: save, history, create_draft, list_drafts, switch_draft and status,
\* handled while no repository is open, answer 400 "initialize first" and
\* leave every directory (index, revisions, refs, HEAD) and the handle as
\* they are.
C11_NotInitializedDoesNothing ==
    [][(repo = Nil /\ LocalOperation)
        => /\ lresp'.op \in {"save", "history", "draft/create", "draft/list",
                             "draft/switch", "status"}
           /\ lresp'.code = 400
           /\ lresp'.success = FALSE
           /\ lresp'.message = "saki ni shokika shite kudasai"
           /\ disk' = disk
           /\ repo' = Nil
           /\ loc' = loc]_vars

\* C11 witness: a save was refused for want of an open repository while a
\* directory holds a repository with changes to stage.
C11_Witness ==
    /\ repo = Nil
    /\ lresp.op = "save"
    /\ lresp.message = "saki ni shokika shite kudasai"
    /\ \E d \in Dirs : disk[d].exists /\ ~IsClean(disk[d].status)

\* C12: init on a directory that holds a repository opens it and leaves the
\* disk (revisions, refs, HEAD, index) as it is; an init that follows a
\* successful init of the same directory changes nothing and answers the same.
C12_InitIdempotent ==
    [][\A d \in Dirs, initFails \in BOOLEAN :
        /\ (disk[d].exists /\ HandleInit(TRUE, d, initFails))
            => /\ disk' = disk
               /\ repo' = d
               /\ workDir' = d
               /\ lresp'.success
        /\ (/\ lresp.op = "init" /\ lresp.success /\ lresp.arg = d
            /\ HandleInit(TRUE, d, initFails))
            => /\ UNCHANGED <<disk, repo, workDir>>
               /\ lresp' = lresp]_vars

\* C12 witness: init has just opened a repository that holds a revision and
\* two drafts.
C12_Witness ==
    /\ lresp.op = "init" /\ lresp.success
    /\ repo = lresp.arg
    /\ NumCommits(repo) > 0
    /\ Cardinality(Branches(disk[repo])) > 1

\* C13 (as claimed): switch_draft(name) succeeds exactly when name is an
\* existing draft, and then name is the current draft; for a name that does
\* not exist it fails and the current draft and the refs are unchanged.
C13_SwitchSucceedsIffExists ==
    [][\A name \in DraftNames :
        (repo # Nil /\ HandleDraftSwitch(TRUE, name))
        => /\ lresp'.success <=> disk[repo].refs[name] # 0
           /\ lresp'.success => disk'[repo].head = name
           /\ disk[repo].refs[name] = 0
                => /\ lresp'.error = "reference not found"
                   /\ disk'[repo].head = disk[repo].head
                   /\ disk'[repo].refs = disk[repo].refs]_vars

----------------------------------------------------------------------------
(* Settings Store: properties of get and save *)

\* The calls of request r with the given name.
HCalls(r, call) == { n \in DOMAIN hreq[r].log : hreq[r].log[n].call = call }

\* C14: a settings get whose read of the settings file is answered 404
\* returns 200 success with the default document: version "1.0", 17
\* characters per line, 42 lines per page, vertical, light, no repositories,
\* no active repository (last_updated is the time of the request).
C14_GetDefaultsWhenNotFound ==
    \A r \in Reqs :
        (/\ hreq[r].kind = "settings/get"
         /\ \E n \in HCalls(r, "GET file") : hreq[r].log[n].status = 404)
        => /\ hreq[r].pc = "done"
           /\ hreq[r].resp.code = 200
           /\ hreq[r].resp.success
           /\ \E t \in 0..now :
                hreq[r].resp.settings =
                    [version |-> "1.0", chars_per_line |-> 17, lines_per_page |-> 42,
                     writing_mode |-> "vertical", theme |-> "light", repositories |-> <<>>,
                     active_repo |-> "", custom_settings |-> <<>>,
                     last_updated |-> FormatRFC3339(t)]

\* C14 witness: a get answered with the default document after a 404.
C14_Witness ==
    \E r \in Reqs :
        /\ hreq[r].kind = "settings/get"
        /\ hreq[r].pc = "done"
        /\ \E n \in HCalls(r, "GET file") : hreq[r].log[n].status = 404
        /\ hreq[r].resp.success
        /\ hreq[r].resp.settings.version = "1.0"
        /\ hreq[r].resp.settings.chars_per_line = 17

\* C15: a get that follows a successful save (the only save) and whose calls
\* are answered returns the document the save answered with, which is the
\* request's document with last_updated stamped, whatever the file held before.
C15_GetReturnsSavedDocument ==
    [][\A g \in Reqs, s \in Reqs :
        (/\ g # s
         /\ hreq[s].kind = "settings/save"
         /\ hreq[s].pc = "done"
         /\ hreq[s].resp.success
         /\ HandleGetSettings(g, TRUE, FALSE, "none"))
        => /\ hreq'[g].resp.success
           /\ hreq'[g].resp.settings = hreq[s].resp.settings
           /\ \E doc \in SettingsInputs, t \in 0..now :
                hreq'[g].resp.settings = [doc EXCEPT !.last_updated = FormatRFC3339(t)]]_vars

\* C15 witness: a save replaced an existing file (its PUT was answered 200)
\* and the get that followed returned the saved document.
C15_Witness ==
    /\ hreq[1].kind = "settings/save" /\ hreq[1].resp.success
    /\ \E n \in HCalls(1, "PUT file") : hreq[1].log[n].status = 200
    /\ hreq[2].kind = "settings/get" /\ hreq[2].resp.success
    /\ hreq[2].resp.settings = hreq[1].resp.settings
    /\ hreq[2].resp.settings.theme = "dark"

\* C16 (as claimed): when the read of the settings file in a save was
\* answered 200 (the file exists), the PUT that reaches the service carries
\* a hash.
C16_WriteCarriesHashOfExistingFile ==
    \A r \in Reqs :
        \A n \in HCalls(r, "GET file"), m \in HCalls(r, "PUT file") :
            (hreq[r].log[n].status = 200 /\ hreq[r].log[m].status \notin {0, 503})
            => hreq[r].log[m].sha # NoFileSHA

----------------------------------------------------------------------------
(* Remote drafts and review requests: properties *)

DataKeys(data) == { data[n][1] : n \in DOMAIN data }
DataField(data, key) == data[CHOOSE n \in DOMAIN data : data[n][1] = key][2]

\* The answer of the latest call of request r in the state after a step.
LastStatus(q) == q.log[Len(q.log)].status

\* The revision the request was answered by its read of the base ref.
RevisionRead(q) == q.log[CHOOSE n \in DOMAIN q.log : q.log[n].call = "GET ref"].rev

\* C17: remote create_draft creates the new ref at the revision it read from
\* the base branch in its first step: when its ref-creation call is answered
\* and the name is free, the creation succeeds and the new ref points at the
\* revision read, also when the base has advanced since the read.
C17_CreatedAtRevisionRead ==
    [][\A r \in Reqs :
        (/\ hreq[r].kind = "souan-create"
         /\ hreq[r].pc = "create"
         /\ hreq'[r].pc = "done"
         /\ hreq[r].object
         /\ host.refs[hreq[r].name] = 0
         /\ Len(hreq'[r].log) > Len(hreq[r].log)
         /\ LastStatus(hreq'[r]) \notin {0, 503})
        => /\ hreq'[r].resp.success
           /\ hreq'[r].resp.code = 200
           /\ host'.refs[hreq[r].name] = RevisionRead(hreq[r])
           /\ host'.refs[hreq[r].baseBranch] = host.refs[hreq[r].baseBranch]]_vars

\* C17 witness: a request between its read and its ref-creation call whose
\* base has advanced: the revision it read is no longer the base's tip.
C17_Witness ==
    \E r \in Reqs :
        /\ hreq[r].kind = "souan-create"
        /\ hreq[r].pc = "create"
        /\ hreq[r].object
        /\ host.refs[hreq[r].name] = 0
        /\ host.refs[hreq[r].baseBranch] > hreq[r].sha

\* C18: remote create_draft with a name that is a branch already fails and
\* leaves every ref's target unchanged (refs map each name to one target).
C18_CreateExistingRefFails ==
    [][\A r \in Reqs :
        (/\ hreq[r].kind = "souan-create"
         /\ hreq[r].pc = "create"
         /\ hreq'[r].pc = "done"
         /\ host.refs[hreq[r].name] # 0)
        => /\ ~hreq'[r].resp.success
           /\ hreq'[r].resp.code = 500
           /\ host'.refs = host.refs]_vars

\* C18 witness: the ref-creation call for an existing name was answered 422
\* and the request failed.
C18_Witness ==
    \E r \in Reqs :
        /\ hreq[r].kind = "souan-create"
        /\ hreq[r].pc = "done"
        /\ \E n \in HCalls(r, "POST ref") : hreq[r].log[n].status = 422
        /\ host.refs[hreq[r].name] # 0
        /\ ~hreq[r].resp.success

\* C19: when the reviewer call of submit_for_review fails (network error or
\* an answer that is not 2xx), the review request created before stays and
\* the response is 200 success with its number and URL.
C19_ReviewerFailureKeepsRequest ==
    [][\A r \in Reqs :
        (/\ hreq[r].kind = "kousei-irai"
         /\ hreq[r].pc = "review"
         /\ hreq'[r].pc = "done"
         /\ LastStatus(hreq'[r]) \notin {200, 201})
        => /\ hreq'[r].resp.success
           /\ hreq'[r].resp.code = 200
           /\ host'.pulls = host.pulls
           /\ hreq[r].number \in DOMAIN host'.pulls
           /\ host'.pulls[hreq[r].number].head = hreq[r].name
           /\ DataField(hreq'[r].resp.data, "pullRequestNumber") = hreq[r].number
           /\ DataField(hreq'[r].resp.data, "pullRequestURL") = PullURL(hreq[r].number)]_vars

\* C19 witness: a review request exists whose reviewer call was refused, and
\* its request was answered with success.
C19_Witness ==
    \E r \in Reqs :
        /\ hreq[r].kind = "kousei-irai"
        /\ hreq[r].pc = "done"
        /\ \E n \in HCalls(r, "POST reviewers") : hreq[r].log[n].status = 422
        /\ hreq[r].resp.success
        /\ hreq[r].number \in DOMAIN host.pulls
        /\ host.pulls[hreq[r].number].reviewers = <<>>

\* C20 (as claimed): when the reviewer call failed, the response carries a
\* warning.
C20_ReviewerFailureWarns ==
    \A r \in Reqs :
        (/\ hreq[r].kind = "kousei-irai"
         /\ hreq[r].pc = "done"
         /\ \E n \in HCalls(r, "POST reviewers") : hreq[r].log[n].status \notin {200, 201})
        => "warning" \in DataKeys(hreq[r].resp.data)

----------------------------------------------------------------------------
(* Local Engine: concurrent requests *)

\* C21: concurrent init requests race on repo and workDir: the path a request
\* opens or initialises is the value of workDir at the moment of the call,
\* whichever request wrote it, and repo is assigned what that call returned.
C21_InitUsesSharedWorkDir ==
    [][\A r \in Reqs :
        /\ (hreq[r].kind = "init" /\ hreq[r].pc \in {"open", "init"} /\ hreq'[r] # hreq[r])
            => /\ hreq'[r].path = workDir
               /\ hreq'[r].handle \in {Nil, workDir}
        /\ (hreq[r].kind = "init" /\ hreq[r].pc \in {"assignOpen", "assignInit"}
                /\ hreq'[r] # hreq[r])
            => repo' = hreq[r].handle]_vars

\* C21 witness: two init requests with different paths have both answered
\* success, and the open handle refers to one path while workDir holds the
\* other.
C21_Witness ==
    /\ \A r \in Reqs : hreq[r].kind = "init" /\ hreq[r].pc = "done" /\ hreq[r].resp.success
    /\ hreq[1].name # hreq[2].name
    /\ repo \in Dirs
    /\ workDir \in Dirs
    /\ repo # workDir

----------------------------------------------------------------------------
(* Endpoints authenticated by the Authorization header *)

\* C22 (as claimed): a request without the Authorization header (its query,
\* where the endpoint takes one, is present) is answered 401 and issues no
\* backend call, on each of the four endpoints.
C22_MissingHeaderIs401 ==
    [][\A r \in Reqs :
        (\/ \E userFault \in BOOLEAN, fault \in Faults : HandleGetSettings(r, FALSE, userFault, fault)
         \/ \E fault \in Faults : HandleGetRepositories(r, FALSE, fault)
         \/ \E fault \in Faults : HandleSouanList(r, FALSE, TRUE, fault)
         \/ \E fault \in Faults : HandleRepositoryInfo(r, FALSE, TRUE, fault))
        => /\ hreq'[r].resp.code = 401
           /\ hreq'[r].log = <<>>]_vars

\* C23 (as claimed): when the read of the base ref of remote create_draft is
\* answered with a status that is not 2xx, the request ends with a failure
\* response that has a message and the upstream detail, and no ref-creation
\* call is issued.
C23_BaseReadFailureSurfaced ==
    \A r \in Reqs :
        (/\ hreq[r].kind = "souan-create"
         /\ hreq[r].pc = "done"
         /\ \E n \in HCalls(r, "GET ref") : hreq[r].log[n].status \in {404, 503})
        => /\ ~hreq[r].resp.success
           /\ hreq[r].resp.message # ""
           /\ hreq[r].resp.error # ""
           /\ HCalls(r, "POST ref") = {}

----------------------------------------------------------------------------
(* Remote Engine: order and fate of the calls of submit_files *)

\* C24 (as claimed): when the hash read of a file fails in the network, no
\* content-update call is issued for that file.
C24_ReadNetworkErrorIsFatal ==
    \A r \in Reqs :
        \A n \in DOMAIN req[r].log, m \in DOMAIN req[r].log :
            (req[r].log[n].op = "GET" /\ req[r].log[n].status = 0)
            => ~(req[r].log[m].op = "PUT" /\ req[r].log[m].idx = req[r].log[n].idx)

----------------------------------------------------------------------------
(* Settings Store: errors of the read in get *)

\* C25 (as claimed): when the read of the settings file in a get fails with
\* anything but 404 (a network error, another status, or content that does
\* not decode), the get does not answer success. (No request changes the
\* stored file under SpecAuth, so host.settingsFile is the file that was read.)
C25_GetSurfacesOtherErrors ==
    \A r \in Reqs :
        (/\ hreq[r].kind = "settings/get"
         /\ hreq[r].pc = "done"
         /\ \E n \in HCalls(r, "GET file") :
                \/ hreq[r].log[n].status \in {0, 503}
                \/ hreq[r].log[n].status = 200 /\ host.settingsFile = NotJSON)
        => ~hreq[r].resp.success

\* C26: within one submit request the calls are, in this order, the hash read
\* of file 1, the content update of file 1, the hash read of file 2, ...: one
\* read and one update per file at most, the read first; an update that fails
\* is the request's last call, and the request ends with a failure.
C26_OneReadOneWriteInOrder ==
    \A r \in Reqs :
        /\ Len(req[r].log) <= 2 * Len(req[r].files)
        /\ \A n \in DOMAIN req[r].log :
            /\ req[r].log[n].op = IF n % 2 = 1 THEN "GET" ELSE "PUT"
            /\ req[r].log[n].idx = (n + 1) \div 2
            /\ (req[r].log[n].op = "PUT" /\ req[r].log[n].status \notin {200, 201})
                => /\ n = Len(req[r].log)
                   /\ req[r].pc = "done"
                   /\ ~req[r].resp.success

\* C26 witness: a request with two files whose first update failed: it ended
\* after two calls.
C26_Witness ==
    /\ Len(req[1].files) = 2
    /\ req[1].pc = "done"
    /\ Len(req[1].log) = 2
    /\ req[1].log[2].op = "PUT"
    /\ req[1].log[2].status \notin {200, 201}
    /\ ~req[1].resp.success

----------------------------------------------------------------------------
(* Review requests: when the reviewer call is issued *)

\* C27: a request issues the reviewer call at most once, only right after its
\* creation call was answered 201 and only with a non-empty reviewer list; a
\* shusei-irai request never issues one.
C27_ReviewerCallOnlyAfterCreation ==
    \A r \in Reqs :
        /\ Cardinality(HCalls(r, "POST reviewers")) <= 1
        /\ \A n \in HCalls(r, "POST reviewers") :
            /\ hreq[r].kind = "kousei-irai"
            /\ n > 1
            /\ hreq[r].log[n - 1].call = "POST pulls"
            /\ hreq[r].log[n - 1].status = 201
            /\ Len(hreq[r].reviewers) > 0
        /\ hreq[r].kind = "shusei-irai" => HCalls(r, "POST reviewers") = {}

\* C27 witness: one request attached its reviewers after its creation call
\* was answered 201, while a shusei-irai request created a review request with
\* a single call.
C27_Witness ==
    \E r \in Reqs, s \in Reqs :
        /\ hreq[r].kind = "kousei-irai"
        /\ hreq[r].pc = "done"
        /\ Len(hreq[r].log) = 2
        /\ hreq[r].log[1].status = 201
        /\ hreq[r].log[2].call = "POST reviewers"
        /\ hreq[s].kind = "shusei-irai"
        /\ hreq[s].pc = "done"
        /\ Len(hreq[s].log) = 1

----------------------------------------------------------------------------
(* Local Engine: the message of a save, revisions, the current draft *)

\* The message of the revision at the tip of the current draft after a step.
Committed == disk'[repo].commits[HeadHash(disk'[repo])].message

\* The request's message, or the timestamped default of a time up to now.
OwnOrDefault(message, committed) ==
    IF message # <<>> THEN committed = message
    ELSE \E t \in 0..now : committed = <<FormatTime(t), " - jidou hozon">>

\* C28: the message committed by a save is the generated message (the text
\* of the collaborator's answer, trimmed) when useAI is set, a collaborator is
\* configured, the change summary is not empty and that text is not empty,
\* whatever message the request carried; otherwise the request's message if
\* it is not empty; otherwise the timestamped default.
C28_CommittedMessage ==
    [][/\ \A message \in UserMessages, useAI \in BOOLEAN, emptyOK \in BOOLEAN :
            (repo # Nil /\ HandleSave(TRUE, message, useAI, emptyOK))
            => IF useAI /\ genClient /\ FormatChanges(AddAll(disk[repo]).status) # {}
               THEN /\ loc'.pc = "waitAI"
                    /\ disk'[repo].commits = disk[repo].commits
               ELSE lresp'.success
                    => /\ OwnOrDefault(message, Committed)
                       /\ message = <<>> => Committed = <<FormatTime(now), " - jidou hozon">>
       /\ \A emptyOK \in BOOLEAN :
            (lresp'.success /\ SaveAfterAI(emptyOK))
            => IF /\ genClient
                  /\ FormatChanges(disk[repo].status) # {}
                  /\ GenerateAICommitMessage(loc.out) # <<>>
               THEN Committed = GenerateAICommitMessage(loc.out)
               ELSE OwnOrDefault(loc.reqMessage, Committed)]_vars

\* C28 witness: a save that carried its own message committed the generated
\* message, the collaborator's text without its surrounding white space.
C28_Witness ==
    /\ loc.pc = "idle"
    /\ loc.reqMessage = <<"m1">>
    /\ loc.out = [err |-> FALSE, candidates |-> << << <<" ", "ai1", " ">> >> >>]
    /\ lresp.op = "save" /\ lresp.success
    /\ lresp.cmsg = <<"ai1">>
    /\ disk[repo].commits[HeadHash(disk[repo])].message = <<"ai1">>

\* C29: revisions are created only by a successful save and never change: a
\* step of any Local Engine operation keeps every revision of every
\* repository as it is (message, author, parent, time), and adds one only
\* when it is a save of the open repository that answers success.
C29_RevisionsOnlyBySaveAndImmutable ==
    [][\A d \in Dirs :
        /\ Len(disk'[d].commits) >= Len(disk[d].commits)
        /\ \A id \in DOMAIN disk[d].commits : disk'[d].commits[id] = disk[d].commits[id]
        /\ Len(disk'[d].commits) > Len(disk[d].commits)
            => /\ lresp'.op = "save"
               /\ lresp'.success
               /\ d = repo
               /\ Len(disk'[d].commits) = Len(disk[d].commits) + 1]_vars

\* C29 witness: init has just answered success on a repository that holds two
\* revisions, the second the child of the first.
C29_Witness ==
    /\ lresp.op = "init" /\ lresp.success
    /\ repo \in Dirs
    /\ Len(disk[repo].commits) = 2
    /\ disk[repo].commits[2].parent = 1
    /\ disk[repo].commits[1].parent = 0

\* C30: a successful list_drafts response has exactly one entry with current
\* true and one entry for every existing draft, and the current entry names
\* the draft HEAD names, which is what a successful status reports as current
\* in that state.
C30_ExactlyOneCurrentDraft ==
    [][/\ (lresp'.success /\ HandleDraftList)
            => /\ Cardinality({ e \in lresp'.drafts : e.current }) = 1
               /\ { e.name : e \in lresp'.drafts } = Branches(disk[repo])
               /\ Cardinality(lresp'.drafts) = Cardinality(Branches(disk[repo]))
               /\ \A e \in lresp'.drafts : e.current => e.name = disk[repo].head
       /\ (lresp'.success /\ HandleStatus) => lresp'.current = disk[repo].head]_vars

\* C30 witness: a list of two drafts or more whose current entry is chapter2.
C30_Witness ==
    /\ lresp.op = "draft/list" /\ lresp.success
    /\ Cardinality(lresp.drafts) >= 2
    /\ [name |-> "chapter2", current |-> TRUE] \in lresp.drafts
    /\ [name |-> "master", current |-> FALSE] \in lresp.drafts

----------------------------------------------------------------------------
(* Local Engine: effects of a save, status, failures *)

\* C31: a successful save adds exactly one revision, whose parent is the
\* previous tip of the current draft (none on a draft without revisions), and
\* moves the current draft's ref to it; every other draft keeps its tip, and
\* the current draft and the open repository stay the same.
C31_SaveMovesOnlyCurrentDraft ==
    [][(lresp'.success /\ lresp'.op = "save")
        => LET old == disk[repo]
               new == disk'[repo]
               id == Len(old.commits) + 1
           IN /\ repo' = repo
              /\ Len(new.commits) = id
              /\ SubSeq(new.commits, 1, id - 1) = old.commits
              /\ new.commits[id].parent = old.refs[old.head]
              /\ new.head = old.head
              /\ new.refs[old.head] = id
              /\ \A n \in DraftNames \ {old.head} : new.refs[n] = old.refs[n]
              /\ \A d \in Dirs \ {repo} : disk'[d] = disk[d]]_vars

\* C31 witness: a save on chapter2 has just made revision 2, child of
\* revision 1, while master stays at revision 1.
C31_Witness ==
    /\ lresp.op = "save" /\ lresp.success
    /\ disk[repo].head = "chapter2"
    /\ disk[repo].refs["chapter2"] = 2
    /\ disk[repo].refs["master"] = 1
    /\ disk[repo].commits[2].parent = 1

C33_DirtyFlagAgreesWithCount ==
    (lresp.op = "status" /\ lresp.success) => (lresp.hasChanges <=> lresp.modified > 0)

\* C33 witness: a successful status response that counts one changed path,
\* a file that was never saved, and reports hasChanges.
C33_Witness ==
    /\ lresp.op = "status" /\ lresp.success
    /\ lresp.modified = 1 /\ lresp.hasChanges
    /\ \E f \in WFiles : disk[repo].status[f].Worktree = Untracked

\* C34: the remote switch-draft operation issues no backend call and changes
\* neither the hosting service nor any local state; every well-formed request
\* is answered 200 success with the requested draft name, also when the
\* repository has no draft of that name.
C34_SouanSwitchIsNoOp ==
    [][\A r \in Reqs :
        (/\ hreq[r].pc = "idle"
         /\ hreq'[r].pc = "done"
         /\ hreq'[r].kind = "souan-switch")
            => /\ hreq'[r].log = <<>>
               /\ host' = host
               /\ UNCHANGED <<remoteVars, localVars>>
               /\ \A o \in Reqs \ {r} : hreq'[o] = hreq[o]
               /\ hreq'[r].resp.code # 400
                    => /\ hreq'[r].resp.code = 200
                       /\ hreq'[r].resp.success
                       /\ DataField(hreq'[r].resp.data, "name") = hreq'[r].name
                       /\ DataField(hreq'[r].resp.data, "repository") = Repository]_vars

\* C34 witness: a switch to a draft the repository does not have was
\* answered with success.
C34_Witness ==
    \E r \in Reqs :
        /\ hreq[r].kind = "souan-switch" /\ hreq[r].pc = "done"
        /\ hreq[r].resp.success
        /\ hreq[r].name = "souan1"
        /\ host.refs["souan1"] = 0

\* C35 (as claimed): the ensure-repository step of settings save is an
\* idempotent create. A save whose check found the repository issues no
\* create call; a save whose check found it absent does not fail when its
\* create call is answered that the repository exists by now (another save
\* of the same identity created it in between).
C35_EnsureRepoIdempotent ==
    \A r \in Reqs :
        hreq[r].kind = "settings/save"
        => /\ (\E n \in HCalls(r, "GET repo") : hreq[r].log[n].status = 200)
                => HCalls(r, "POST repo") = {}
           /\ (/\ hreq[r].pc = "done"
               /\ \E n \in HCalls(r, "GET repo") : hreq[r].log[n].status = 404
               /\ \E n \in HCalls(r, "POST repo") : hreq[r].log[n].status = 422)
                => hreq[r].resp.success

\* C37 (as claimed): an init request that fails (the path can neither be
\* opened nor initialized) while a repository is open leaves the repository
\* handle and workDir as they were.
C37_FailedInitKeepsOpenRepository ==
    [][(/\ repo # Nil
        /\ lresp'.op = "init"
        /\ lresp'.code = 500)
            => /\ repo' = repo
               /\ workDir' = workDir]_vars

\* C38 (as claimed): when local switch_draft or create_draft answers with an
\* error, the current draft and the set of drafts are what they were before
\* the call.
C38_FailedDraftCallChangesNothing ==
    [][(/\ repo # Nil
        /\ lresp'.op \in {"draft/create", "draft/switch"}
        /\ ~lresp'.success)
            => /\ disk'[repo].head = disk[repo].head
               /\ Branches(disk'[repo]) = Branches(disk[repo])]_vars

\* C39 (as claimed): from the first successful save on, history, list_drafts,
\* status and create_draft all succeed.
C39_AllSucceedAfterFirstSave ==
    [][(/\ repo # Nil
        /\ Len(disk[repo].commits) > 0
        /\ lresp'.op \in {"history", "draft/list", "status", "draft/create"}
        /\ lresp'.code # 400)
            => lresp'.success]_vars

\* C39 (amended): on an open repository without a revision, history,
\* list_drafts and status answer 500 and create_draft fails, changing nothing;
\* once the repository has a revision, history, list_drafts and status
\* succeed, and create_draft never fails for want of a revision: it succeeds
\* exactly when the name is not a draft yet and the working tree has no
\* unstaged change.
C39_NoRevisionNoAnswers ==
    [][(/\ repo # Nil
        /\ lresp'.op \in {"history", "draft/list", "status", "draft/create"}
        /\ lresp'.code # 400)
            => IF disk[repo].commits = <<>>
               THEN /\ lresp'.code = 500
                    /\ ~lresp'.success
                    /\ lresp'.error = "reference not found"
                    /\ disk' = disk
               ELSE IF lresp'.op = "draft/create"
               THEN /\ lresp'.error # "reference not found"
                    /\ lresp'.success <=> /\ disk[repo].refs[lresp'.arg] = 0
                                          /\ ~ContainsUnstagedChanges(disk[repo])
               ELSE /\ lresp'.code = 200
                    /\ lresp'.success]_vars

\* C39 witness: create_draft was refused on a repository that is initialized
\* and has no revision.
C39_Witness ==
    /\ repo # Nil
    /\ disk[repo].exists
    /\ disk[repo].commits = <<>>
    /\ lresp.op = "draft/create"
    /\ lresp.code = 500
    /\ lresp.error = "reference not found"

\* C40: a remote submit without files (the list is empty or omitted) issues
\* no backend call and leaves the branch and everything else unchanged; it
\* answers 200 success with the repository, the branch ("main" when the
\* request names none) and the message of the request.
C40_EmptySubmitIsNoOp ==
    [][\A r \in Reqs :
        (/\ req[r].pc = "idle"
         /\ req'[r].pc = "done"
         /\ req'[r].resp.code # 400)
            => /\ req'[r].files = <<>>
               /\ req'[r].log = <<>>
               /\ srv' = srv
               /\ \A o \in Reqs \ {r} : req'[o] = req[o]
               /\ UNCHANGED <<localVars, hostVars>>
               /\ req'[r].resp.code = 200
               /\ req'[r].resp.success
               /\ req'[r].resp.error = ""
               /\ req'[r].resp.data = <<"repository", "main", "message">>]_vars

\* C40 witness: a submit without files was answered with success while the
\* other request had written a file to the branch.
C40_Witness ==
    \E r \in Reqs :
        /\ req[r].pc = "done"
        /\ req[r].files = <<>>
        /\ req[r].log = <<>>
        /\ req[r].resp.success
        /\ req[r].resp.data[2] = "main"
        /\ srv # snap

\* C36: a save is not atomic with respect to a concurrent switch_draft or
\* create_draft: its revision is appended to the draft that is current when
\* the commit call is made, whatever draft was current when the request
\* started and staged; when the two differ, the draft the request started on
\* keeps its tip.
C36_SaveCommitsOnDraftAtCommitTime ==
    [][\A r \in Reqs :
        (/\ hreq[r].kind = "save"
         /\ hreq[r].pc = "commit"
         /\ hreq'[r].pc = "done"
         /\ hreq'[r].resp.success)
            => LET old == disk[hreq[r].handle]
                   new == disk'[hreq[r].handle]
                   id == Len(old.commits) + 1
               IN /\ Len(new.commits) = id
                  /\ new.commits[id].parent = old.refs[old.head]
                  /\ new.head = old.head
                  /\ new.refs[old.head] = id
                  /\ \A n \in DraftNames \ {old.head} : new.refs[n] = old.refs[n]]_vars

\* C36 witness: a save that started and staged on master, answered with
\* success, whose revision is the tip of chapter2 while master is where it
\* was: the draft changed between the staging and the commit.
C36_Witness ==
    \E r \in Reqs :
        /\ hreq[r].kind = "save" /\ hreq[r].pc = "done"
        /\ hreq[r].resp.success
        /\ hreq[r].name = "master"
        /\ LET rs == disk[hreq[r].handle]
           IN /\ rs.head = "chapter2"
              /\ rs.refs["chapter2"] = Len(rs.commits)
              /\ DataField(hreq[r].resp.data, "commit") = ShortID(Len(rs.commits))
              /\ rs.refs["master"] # 0
              /\ rs.refs["master"] < rs.refs["chapter2"]

====
